---- MODULE Spec2Model ----
(***************************************************************************)
(* Model of backend/services/dark_vessel_service.py (DarkVesselService):   *)
(* the proximity cluster detector, the route predictor, the risk scorer    *)
(* and the dark vessel aggregator; of the event requests of                 *)
(* backend/utils/gfw_client.py; of the response cache                       *)
(* (backend/utils/ttl_cache.py with the /api/bins handler and the           *)
(* /api/analytics/risk-score handler); and of parse_eez_ids of              *)
(* backend/utils/api_helpers.py.                                            *)
(*                                                                          *)
(* Number representation.  Python floats are modelled by exact fixed-point  *)
(* integers with one decimal: every distance (km), speed (km/h) and score   *)
(* is held times 10 (15 stands for 1.5 km).  Positions lie on one meridian  *)
(* (longitude LonM) and latitudes are whole multiples of the arc that is    *)
(* 1 km long (180 / (pi * 6371) degrees), so that the haversine formula     *)
(* R * c reduces to |lat2 - lat1| km.  Thresholds are taken at x.5 km so    *)
(* that no comparison sits on a floating-point boundary.                    *)
(* Times are whole hours since an epoch; a bare date is midnight of a day.  *)
(***************************************************************************)
EXTENDS Integers, Sequences, FiniteSets, TLC

VARIABLES
    op,                \* which service method is being exercised
    pc,                \* position of the call: "called", ..., "returned"
    sar_detections,    \* argument: list of SAR detection records
    gap_events,        \* argument: list of gap event records
    max_distance_km,   \* argument (x10)
    same_date_only,    \* argument of detect_proximity_clusters
    max_time_hours,    \* argument of predict_routes
    min_route_length,  \* argument of predict_routes
    clusters_ret,      \* outcome of detect_proximity_clusters
    routes_ret,        \* outcome of predict_routes
    upstream,          \* what the upstream API will answer to the risk scorer
    score,             \* calculate_risk_score: local `score` (x10)
    factors,           \* calculate_risk_score: local `factors`
    risk_ret,          \* outcome of calculate_risk_score
    eez_ids,           \* get_dark_vessels: argument, list of region ids
    start_date,        \* get_dark_vessels: argument, "YYYY-MM-DD" as <<y, m, d>>
    end_date,          \* get_dark_vessels: argument
    include_sar,       \* get_dark_vessels: argument
    include_gaps,      \* get_dark_vessels: argument
    date_chunks,       \* get_dark_vessels: local, list of (start, end) chunks
    loop,              \* get_dark_vessels: indices of the region and chunk loops
    in_flight,         \* upstream calls issued and not yet answered
    calls,             \* history of sleeps, upstream calls and their answers
    results,           \* get_dark_vessels: local `results`, returned at the end
    client_call,       \* GFWApiClient: the method called and its arguments
    request,           \* GFWApiClient: the outgoing HTTP request
    store,             \* TTLCache._store, in insertion order
    now,               \* time.time(), in ticks
    upstream_calls,    \* number of upstream get_bins calls made
    response,          \* the last answer of the /api/bins handler
    answered,          \* per cache key, the last answer the upstream gave
    eez_args,          \* parse_eez_ids: the request args and prioritize_parents
    eez_ret            \* parse_eez_ids: the list returned

\* The variables of each component.
serviceVars == <<sar_detections, gap_events, max_distance_km, same_date_only,
                 max_time_hours, min_route_length, clusters_ret, routes_ret,
                 upstream, score, factors, risk_ret>>

aggregatorVars == <<eez_ids, start_date, end_date, include_sar, include_gaps,
                    date_chunks, loop, in_flight, calls, results>>

clientVars == <<client_call, request>>

cacheVars == <<store, now, upstream_calls, response, answered>>

eezVars == <<eez_args, eez_ret>>

vars == <<op, pc, serviceVars, aggregatorVars, clientVars, cacheVars, eezVars>>

\* The values a component's variables have while another component is
\* exercised: no call was made to it.
AggregatorIdle ==
    /\ eez_ids = <<>> /\ start_date = <<>> /\ end_date = <<>>
    /\ include_sar = FALSE /\ include_gaps = FALSE
    /\ date_chunks = <<>> /\ loop = <<>> /\ in_flight = {} /\ calls = <<>>
    /\ results = <<>>

ClientIdle == client_call = <<>> /\ request = <<>>

CacheIdle ==
    /\ store = <<>> /\ now = 0 /\ upstream_calls = 0 /\ response = <<>>
    /\ answered = <<>>

EezIdle == eez_args = <<>> /\ eez_ret = <<>>

ServiceIdle ==
    /\ sar_detections = <<>> /\ gap_events = <<>>
    /\ max_distance_km = 0 /\ same_date_only = TRUE
    /\ max_time_hours = 0 /\ min_route_length = 0
    /\ clusters_ret = [status |-> "none"] /\ routes_ret = [status |-> "none"]
    /\ upstream = <<>> /\ score = 0 /\ factors = <<>>
    /\ risk_ret = [status |-> "none"]

-----------------------------------------------------------------------------
(* Bounds of the model *)

MaxDets == 4        \* longest list of SAR detections
MaxLat == 3         \* latitudes 0..MaxLat km north of the equator

-----------------------------------------------------------------------------
(* Python values *)

\* Python's None, for an absent or null coordinate, date or count.
None == -1000000

\* bool(v) for the numbers and strings the service tests with `or` / `if`:
\* None, 0 and 0.0 are false.
Truthy(v) == v /= None /\ v /= 0

\* a or b
PyOr(a, b) == IF Truthy(a) THEN a ELSE b

Abs(x) == IF x < 0 THEN 0 - x ELSE x
Min(a, b) == IF a <= b THEN a ELSE b

RECURSIVE SumSeq(_)
SumSeq(s) == IF s = <<>> THEN 0 ELSE Head(s) + SumSeq(Tail(s))

Range(s) == {s[k] : k \in DOMAIN s}

Indices(n) == [k \in 1..n |-> k]

-----------------------------------------------------------------------------
(* Geodesy *)

\* The meridian all modelled positions lie on (any longitude other than 0).
LonM == 20

\* _haversine_distance, x10, for two points of one meridian: delta_lon = 0,
\* a = sin^2(delta_lat / 2), c = |delta_lat| in radians, R * c = |lat2 - lat1| km.
haversine_distance(lat1, lon1, lat2, lon2) == 10 * Abs(lat2 - lat1)

-----------------------------------------------------------------------------
(* Proximity cluster detector *)

\* det.get("latitude") or det.get("lat"): the records built by get_dark_vessels
\* carry "latitude"/"longitude" and no "lat"/"lon" key, so the second operand
\* is None.
GetLat(det) == PyOr(det.latitude, None)
GetLon(det) == PyOr(det.longitude, None)

HasCoords(det) == GetLat(det) /= None /\ GetLon(det) /= None

\* The breadth-first search of _find_clusters_for_date: `queue` holds the indices
\* still to expand, `indices` is cluster_indices (= visited_in_cluster, in
\* order of discovery).
RECURSIVE BfsCluster(_, _, _, _, _)
BfsCluster(queue, indices, detections, processed, maxd) ==
    IF queue = <<>> THEN indices
    ELSE
        LET current_idx == Head(queue)
            current_det == detections[current_idx]
            current_lat == GetLat(current_det)
            current_lon == GetLon(current_det)
            Near(j) ==
                /\ j \notin processed
                /\ j \notin Range(indices)
                /\ HasCoords(detections[j])
                /\ haversine_distance(current_lat, current_lon,
                                      GetLat(detections[j]), GetLon(detections[j])) <= maxd
            found == IF current_lat = None \/ current_lon = None THEN <<>>
                     ELSE SelectSeq(Indices(Len(detections)), Near)
        IN  BfsCluster(Tail(queue) \o found, indices \o found, detections, processed, maxd)

\* max over all pairs of valid_detections of their distance
MaxPairDistance(valid) ==
    LET ds == {haversine_distance(GetLat(valid[a]), GetLon(valid[a]),
                                  GetLat(valid[b]), GetLon(valid[b])) :
                   a \in DOMAIN valid, b \in DOMAIN valid}
    IN  CHOOSE m \in ds \cup {0} : \A d \in ds \cup {0} : d <= m

\* risk_indicator from total_vessels
RiskIndicator_HighAboveThree(total_vessels) ==
    IF total_vessels > 3 THEN "high"
    ELSE IF total_vessels >= 2 THEN "medium"
    ELSE "low"

RiskIndicator(total_vessels) ==
    IF total_vessels >= 3 THEN "high"
    ELSE IF total_vessels >= 2 THEN "medium"
    ELSE "low"

\* The cluster dict built from cluster_indices (indices into `detections`);
\* `where` gives, for each position of `detections`, its position in the
\* caller's list, kept in the field `members` to tell equal records apart.
MakeCluster(cluster_indices, detections, where, maxd, date) ==
    LET valid_idx == SelectSeq(cluster_indices, LAMBDA k : HasCoords(detections[k]))
        valid == [k \in DOMAIN valid_idx |-> detections[valid_idx[k]]]
        total_vessels == SumSeq([k \in DOMAIN valid |-> valid[k].detections])
    IN  [ center_latitude  |-> <<SumSeq([k \in DOMAIN valid |-> GetLat(valid[k])]), Len(valid)>>,
          center_longitude |-> <<SumSeq([k \in DOMAIN valid |-> GetLon(valid[k])]), Len(valid)>>,
          date             |-> IF Truthy(date) THEN date ELSE valid[1].date,
          vessel_count     |-> total_vessels,
          detection_count  |-> Len(valid),
          detections       |-> valid,
          max_distance_km  |-> MaxPairDistance(valid),
          risk_indicator   |-> RiskIndicator(total_vessels),
          members          |-> [k \in DOMAIN valid_idx |-> where[valid_idx[k]]] ]

\* A candidate cluster is kept: "if len(cluster_detections) >= 2" and, of
\* those, at least two with coordinates.
KeepCluster_Singletons(cluster_indices, detections) ==
    Len(cluster_indices) >= 1

KeepCluster(cluster_indices, detections) ==
    /\ Len(cluster_indices) >= 2
    /\ Len(SelectSeq(cluster_indices, LAMBDA k : HasCoords(detections[k]))) >= 2

\* The outer loop of _find_clusters_for_date from index i on.
RECURSIVE FindFrom(_, _, _, _, _, _, _)
FindFrom(i, clusters, processed, detections, where, maxd, date) ==
    IF i > Len(detections) THEN clusters
    ELSE IF i \in processed \/ ~HasCoords(detections[i])
         THEN FindFrom(i + 1, clusters, processed, detections, where, maxd, date)
    ELSE
        LET cluster_indices == BfsCluster(<<i>>, <<i>>, detections, processed, maxd)
        IN  IF KeepCluster(cluster_indices, detections)
            THEN FindFrom(i + 1,
                          Append(clusters, MakeCluster(cluster_indices, detections, where, maxd, date)),
                          processed \cup Range(cluster_indices),
                          detections, where, maxd, date)
            ELSE FindFrom(i + 1, clusters, processed, detections, where, maxd, date)

find_clusters_for_date(detections, where, maxd, date) ==
    FindFrom(1, <<>>, {}, detections, where, maxd, date)

\* The key detect_proximity_clusters files a detection under: its date, or
\* "unknown" (held as None here) when the date is missing or empty.
DateKey(det) == IF Truthy(det.date) THEN det.date ELSE None

\* Positions of the detections filed under the same key as position `first`,
\* in input order: detections_by_date[key].
Partition(dets, first) ==
    SelectSeq(Indices(Len(dets)), LAMBDA k : DateKey(dets[k]) = DateKey(dets[first]))

\* The keys of detections_by_date in insertion order, each given by the
\* position of the first detection filed under it.
PartitionHeads(dets) ==
    SelectSeq(Indices(Len(dets)),
              LAMBDA k : \A m \in 1..(k - 1) : DateKey(dets[m]) /= DateKey(dets[k]))

\* The loop over detections_by_date.items(): clusters of every date with two
\* or more detections, appended in order.
RECURSIVE ClustersByDate(_, _, _)
ClustersByDate(heads, dets, maxd) ==
    IF heads = <<>> THEN <<>>
    ELSE
        LET where == Partition(dets, Head(heads))
            date_detections == [k \in DOMAIN where |-> dets[where[k]]]
            found == IF Len(date_detections) >= 2
                     THEN find_clusters_for_date(date_detections, where, maxd,
                                                 DateKey(dets[Head(heads)]))
                     ELSE <<>>
        IN  found \o ClustersByDate(Tail(heads), dets, maxd)

\* The sort key (-vessel_count, date): a before b.
KeyLess(a, b) ==
    \/ a.vessel_count > b.vessel_count
    \/ a.vessel_count = b.vessel_count /\ a.date < b.date

\* Comparing the keys of a and b raises TypeError: equal vessel_count, and a
\* None date against a string date.
KeyIncomparable(a, b) ==
    /\ a.vessel_count = b.vessel_count
    /\ (a.date = None) /= (b.date = None)

\* list.sort is stable: x goes after every element that is not greater.
RECURSIVE InsertSorted(_, _)
InsertSorted(sorted, x) ==
    IF sorted = <<>> THEN <<x>>
    ELSE IF KeyLess(x, Head(sorted)) THEN <<x>> \o sorted
         ELSE <<Head(sorted)>> \o InsertSorted(Tail(sorted), x)

RECURSIVE SortClusters(_)
SortClusters(cs) ==
    IF cs = <<>> THEN <<>>
    ELSE InsertSorted(SortClusters(SubSeq(cs, 1, Len(cs) - 1)), cs[Len(cs)])

\* detect_proximity_clusters: what the call does, "returned" with the list of
\* clusters or "raised" with the exception.
detect_proximity_clusters(dets, maxd, sdo) ==
    IF dets = <<>> THEN [status |-> "returned", clusters |-> <<>>]
    ELSE
        LET clusters ==
                IF sdo THEN ClustersByDate(PartitionHeads(dets), dets, maxd)
                ELSE IF Len(dets) >= 2
                     THEN find_clusters_for_date(dets, Indices(Len(dets)), maxd, None)
                     ELSE <<>>
        IN  IF \E a, b \in DOMAIN clusters : KeyIncomparable(clusters[a], clusters[b])
            THEN [status |-> "raised", clusters |-> <<>>]
            ELSE [status |-> "returned", clusters |-> SortClusters(clusters)]

-----------------------------------------------------------------------------
(* Route predictor *)

\* 90 degrees of latitude in the model's unit (the 1 km arc): R * pi / 2.
LatLimit == 10007

\* datetime.min, the sort key of a point without a time; hours, naive.
DatetimeMin == -1

\* self._extract_vessel_id(item): the vessel id the record carries, if any.
\* Gap events may carry one; SAR detections never do.
extract_vessel_id(item) ==
    IF "vessel_id" \in DOMAIN item THEN item.vessel_id ELSE None

\* date_str = item.get("date") or item.get("timestamp") or item.get("start")
\* or item.get("end"): SAR records carry "date" (a bare YYYY-MM-DD day), gap
\* events carry "start" (ISO-8601 with a Z suffix, an hour here).
DateStr(item) ==
    IF "date" \in DOMAIN item THEN PyOr(item.date, None)
    ELSE IF "start" \in DOMAIN item THEN item.start
    ELSE None

\* "T" in date_str
IsIso(item) == "date" \notin DOMAIN item

\* extract_point_data(item) passes its coordinate check.
ValidPoint(item) ==
    LET lat == GetLat(item)
        lon == GetLon(item)
    IN  /\ lat /= None /\ lon /= None
        /\ 0 - LatLimit <= lat /\ lat <= LatLimit

\* extract_point_data(item) for an item that passes the check: a bare date is
\* parsed by strptime to a naive datetime (midnight), an ISO string with Z by
\* fromisoformat to an aware one.
extract_point_data(item) ==
    LET date_str == DateStr(item)
        vid == extract_vessel_id(item)
    IN  [ lat       |-> GetLat(item),
          lon       |-> GetLon(item),
          timestamp |-> IF date_str = None THEN None
                        ELSE IF IsIso(item) THEN date_str ELSE 24 * date_str,
          aware     |-> date_str /= None /\ IsIso(item),
          date      |-> date_str,
          vessel_id |-> vid,
          source    |-> IF Truthy(vid) THEN "gap" ELSE "sar" ]

\* all_points before the sort: the SAR points, then the gap points.
ExtractAll(sar, gaps) ==
    LET items == sar \o gaps
        ok == SelectSeq(Indices(Len(items)), LAMBDA k : ValidPoint(items[k]))
    IN  [k \in DOMAIN ok |-> extract_point_data(items[ok[k]])]

\* get_sort_key(point): the timestamp, or datetime.min (naive).
SortKey(point) == IF point.timestamp /= None THEN point.timestamp ELSE DatetimeMin

\* Sorting a list that holds an aware and a naive key raises TypeError.
MixedTimezones(points) ==
    \E a, b \in DOMAIN points : points[a].aware /= points[b].aware

RECURSIVE InsertByTime(_, _)
InsertByTime(sorted, x) ==
    IF sorted = <<>> THEN <<x>>
    ELSE IF SortKey(x) < SortKey(Head(sorted)) THEN <<x>> \o sorted
         ELSE <<Head(sorted)>> \o InsertByTime(Tail(sorted), x)

\* all_points.sort(key=get_sort_key), stable
RECURSIVE SortByTime(_)
SortByTime(points) ==
    IF points = <<>> THEN <<>>
    ELSE InsertByTime(SortByTime(SubSeq(points, 1, Len(points) - 1)), points[Len(points)])

\* [lat, lon, timestamp or date] as stored in route_points
RoutePoint(point) == <<point.lat, point.lon, point.timestamp>>

PointDistance(p1, p2) == haversine_distance(p1.lat, p1.lon, p2.lat, p2.lon)

\* Phase A, time_diff_hours between a vessel's consecutive points: the
\* absolute difference of the timestamps, or None when one is missing (the
\* fallback on the date strings finds none either: a point without a
\* timestamp has no date).
VesselTimeDiff(prev_point, point) ==
    IF prev_point.timestamp /= None /\ point.timestamp /= None
    THEN Abs(point.timestamp - prev_point.timestamp)
    ELSE None

\* Phase A: point i of the vessel's points extends the current segment.
Extends(prev_point, point, max_time, max_dist) ==
    /\ PointDistance(prev_point, point) <= max_dist
    /\ LET time_diff_hours == VesselTimeDiff(prev_point, point)
       IN  time_diff_hours = None \/ time_diff_hours <= max_time

\* Phase A walk over one vessel's points from position i on: the closed
\* segments, in order, the last one being the segment open at the end.
RECURSIVE WalkVessel(_, _, _, _, _, _)
WalkVessel(i, points, route_points, closed, max_time, max_dist) ==
    IF i > Len(points) THEN Append(closed, route_points)
    ELSE IF i = 1
         THEN WalkVessel(2, points, <<RoutePoint(points[1])>>, closed, max_time, max_dist)
    ELSE IF Extends(points[i - 1], points[i], max_time, max_dist)
         THEN WalkVessel(i + 1, points, Append(route_points, RoutePoint(points[i])),
                         closed, max_time, max_dist)
    ELSE WalkVessel(i + 1, points, <<RoutePoint(points[i])>>,
                    Append(closed, route_points), max_time, max_dist)

\* The keys of vessel_routes in insertion order, each given by the position
\* in all_points of the vessel's first point.
VesselHeads(all_points) ==
    SelectSeq(Indices(Len(all_points)),
              LAMBDA k : /\ Truthy(all_points[k].vessel_id)
                         /\ \A m \in 1..(k - 1) :
                              all_points[m].vessel_id /= all_points[k].vessel_id)

\* Phase A: the segments handed to _create_route_from_points, in call order,
\* each with its vessel id.
RECURSIVE VesselSegments(_, _, _, _, _)
VesselSegments(heads, all_points, max_time, max_dist, min_len) ==
    IF heads = <<>> THEN <<>>
    ELSE
        LET vessel_id == all_points[Head(heads)].vessel_id
            points == SelectSeq(all_points, LAMBDA q : q.vessel_id = vessel_id)
            segs == IF Len(points) >= min_len
                    THEN WalkVessel(1, points, <<>>, <<>>, max_time, max_dist)
                    ELSE <<>>
            long == SelectSeq(segs, LAMBDA seg : Len(seg) >= min_len)
        IN  [k \in DOMAIN long |-> [points |-> long[k], vessel_id |-> vessel_id]]
            \o VesselSegments(Tail(heads), all_points, max_time, max_dist, min_len)

\* Phase B, time_diff_hours from current_point to a candidate: the time
\* difference when both have a timestamp and it is positive, else None.
SarTimeDiff_NotEarlier(current_point, point2) ==
    IF current_point.timestamp /= None /\ point2.timestamp /= None
       /\ point2.timestamp - current_point.timestamp >= 0
    THEN point2.timestamp - current_point.timestamp
    ELSE None

SarTimeDiff(current_point, point2) ==
    IF current_point.timestamp /= None /\ point2.timestamp /= None
       /\ point2.timestamp - current_point.timestamp > 0
    THEN point2.timestamp - current_point.timestamp
    ELSE None

\* Phase B: j is a candidate to follow current_point.
Candidate_NoTimeLimit(j, current_point, points, processed, max_time, max_dist) ==
    /\ j \notin processed
    /\ PointDistance(current_point, points[j]) <= max_dist
    /\ SarTimeDiff(current_point, points[j]) /= None

Candidate(j, current_point, points, processed, max_time, max_dist) ==
    /\ j \notin processed
    /\ PointDistance(current_point, points[j]) <= max_dist
    /\ LET time_diff_hours == SarTimeDiff(current_point, points[j])
       IN  time_diff_hours /= None /\ time_diff_hours <= max_time

\* 1 / score = (1 + distance) * (1 + time_diff_hours), x10: the smaller the
\* better.
InverseScore(current_point, point2) ==
    (10 + PointDistance(current_point, point2))
        * (1 + (point2.timestamp - current_point.timestamp))

\* Phase B: the chain grown from current (an index), as the list of indices
\* appended after it. "score > best_score" keeps the first of equal scores.
RECURSIVE Chain(_, _, _, _, _)
Chain(current, points, processed, max_time, max_dist) ==
    LET cands == {j \in DOMAIN points :
                    Candidate(j, points[current], points, processed, max_time, max_dist)}
    IN  IF cands = {} THEN <<>>
        ELSE
            LET best_idx == CHOOSE j \in cands : \A m \in cands :
                                \/ InverseScore(points[current], points[j])
                                     < InverseScore(points[current], points[m])
                                \/ /\ InverseScore(points[current], points[j])
                                        = InverseScore(points[current], points[m])
                                   /\ j <= m
            IN  <<best_idx>> \o Chain(best_idx, points, processed \cup {best_idx},
                                      max_time, max_dist)

\* _connect_sar_points from index i on: the chains handed to
\* _create_route_from_points, in call order.
RECURSIVE ConnectFrom(_, _, _, _, _, _)
ConnectFrom(i, points, processed, max_time, max_dist, min_len) ==
    IF i > Len(points) THEN <<>>
    ELSE IF i \in processed
         THEN ConnectFrom(i + 1, points, processed, max_time, max_dist, min_len)
    ELSE
        LET chain == <<i>> \o Chain(i, points, processed \cup {i}, max_time, max_dist)
            route_points == [k \in DOMAIN chain |-> RoutePoint(points[chain[k]])]
            rest == ConnectFrom(i + 1, points, processed \cup Range(chain),
                                max_time, max_dist, min_len)
        IN  IF Len(route_points) >= min_len
            THEN <<[points |-> route_points, vessel_id |-> None]>> \o rest
            ELSE rest

connect_sar_points(points, max_time, max_dist, min_len) ==
    ConnectFrom(1, points, {}, max_time, max_dist, min_len)

\* _create_route_from_points(points, vessel_id): None for fewer than two
\* points; otherwise the route_id line hashes a tuple of the lists p[0:2],
\* which raises TypeError (unhashable type: 'list') before any route is built.
create_route_from_points(points, vessel_id) ==
    IF Len(points) < 2 THEN [kind |-> "None"]
    ELSE [kind |-> "TypeError"]

\* predict_routes: what the call does, "returned" with the list of routes or
\* "raised" with the exception.
predict_routes(sar, gaps, max_time, max_dist, min_len) ==
    IF sar = <<>> /\ gaps = <<>> THEN [status |-> "returned", routes |-> <<>>]
    ELSE
        LET extracted == ExtractAll(sar, gaps)
        IN  IF Len(extracted) < min_len THEN [status |-> "returned", routes |-> <<>>]
            ELSE IF MixedTimezones(extracted)
                 THEN [status |-> "raised", error |-> "TypeError: offset-naive and offset-aware"]
            ELSE
                LET all_points == SortByTime(extracted)
                    segsA == VesselSegments(VesselHeads(all_points), all_points,
                                            max_time, max_dist, min_len)
                    sar_points == SelectSeq(all_points, LAMBDA q : ~Truthy(q.vessel_id))
                    segsB == IF Len(sar_points) >= min_len
                             THEN connect_sar_points(sar_points, max_time, max_dist, min_len)
                             ELSE <<>>
                    madeA == [k \in DOMAIN segsA |->
                                create_route_from_points(segsA[k].points, segsA[k].vessel_id)]
                    madeB == [k \in DOMAIN segsB |->
                                create_route_from_points(segsB[k].points, None)]
                    routes == madeA \o SelectSeq(madeB, LAMBDA r : r.kind /= "None")
                IN  IF \E r \in Range(madeA) \cup Range(madeB) : r.kind = "TypeError"
                    THEN [status |-> "raised", error |-> "TypeError: unhashable type: 'list'"]
                    ELSE IF \E r \in Range(routes) : r.kind = "None"
                    THEN [status |-> "raised", error |-> "AttributeError: 'NoneType'.get"]
                    ELSE [status |-> "returned", routes |-> routes]

-----------------------------------------------------------------------------
(* Inputs *)

Lats == 0..MaxLat

\* The SAR records get_dark_vessels builds: latitude, longitude, date and the
\* cell's detection count (1 or more), any of the first three possibly null.
SarRecords ==
    [latitude : Lats, longitude : {LonM}, date : {1}, detections : {1}]
    \cup [latitude : {1, 2}, longitude : {LonM}, date : {2}, detections : {1}]
    \cup [latitude : {1}, longitude : {LonM}, date : {None}, detections : {1}]
    \cup [latitude : {1}, longitude : {LonM}, date : {1}, detections : {2}]
    \cup [latitude : {None}, longitude : {LonM}, date : {1}, detections : {1}]

SeqsUpTo(S, n) == UNION {[1..k -> S] : k \in 0..n}

\* max_distance_km values the cluster handler accepts (0 < d <= 50), x10
ClusterDistances == {15, 25}

NoOutcome == [status |-> "none"]

\* No upstream call is part of the method exercised.
NoUpstream == <<>>

-----------------------------------------------------------------------------
(* Specification of the cluster detector *)

InitClusters ==
    /\ op = "clusters"
    /\ pc = "called"
    /\ sar_detections \in SeqsUpTo(SarRecords, MaxDets)
    /\ gap_events = <<>>
    /\ max_distance_km \in ClusterDistances
    /\ same_date_only \in BOOLEAN
    /\ max_time_hours = 0
    /\ min_route_length = 0
    /\ clusters_ret = NoOutcome
    /\ routes_ret = NoOutcome
    /\ upstream = NoUpstream
    /\ score = 0
    /\ factors = <<>>
    /\ risk_ret = NoOutcome
    /\ AggregatorIdle /\ ClientIdle /\ CacheIdle /\ EezIdle

DetectProximityClusters ==
    /\ op = "clusters"
    /\ pc = "called"
    /\ clusters_ret' = detect_proximity_clusters(sar_detections, max_distance_km, same_date_only)
    /\ pc' = "returned"
    /\ UNCHANGED <<op, sar_detections, gap_events, max_distance_km, same_date_only,
                   max_time_hours, min_route_length, routes_ret, upstream, score,
                   factors, risk_ret>>
    /\ UNCHANGED <<aggregatorVars, clientVars, cacheVars, eezVars>>

NextClusters == DetectProximityClusters

SpecClusters == InitClusters /\ [][NextClusters]_vars

-----------------------------------------------------------------------------
(* Specification of the route predictor *)

MaxSar == 3         \* longest list of SAR detections given to predict_routes
MaxGaps == 2        \* longest list of gap events given to predict_routes

\* SAR records for the route predictor: days 1..3, or no date.
RouteSarRecords ==
    [latitude : {1, 2}, longitude : {LonM}, date : {1, 2}, detections : {1}]
    \cup [latitude : {0}, longitude : {LonM}, date : {1}, detections : {1}]
    \cup [latitude : {4}, longitude : {LonM}, date : {3}, detections : {1}]
    \cup [latitude : {2}, longitude : {LonM}, date : {None}, detections : {1}]

\* Gap events with coordinates, a start time (hours, ISO with Z) and possibly
\* a vessel id.
GapRecords ==
    [latitude : {1, 2}, longitude : {LonM}, start : {30}, vessel_id : {1}]
    \cup [latitude : {1}, longitude : {LonM}, start : {50}, vessel_id : {1, None}]
    \cup [latitude : {3}, longitude : {LonM}, start : {100}, vessel_id : {1}]

\* max_distance_km (x10) and max_time_hours the route handler accepts
\* (0 < d <= 500, 0 < t <= 168), and min_route_length (any integer).
RouteDistances == {15, 1000}
RouteTimes == {24, 48}
RouteLengths == {1, 2, 3}

InitRoutes ==
    /\ op = "routes"
    /\ pc = "called"
    /\ sar_detections \in SeqsUpTo(RouteSarRecords, MaxSar)
    /\ gap_events \in SeqsUpTo(GapRecords, MaxGaps)
    /\ max_distance_km \in RouteDistances
    /\ same_date_only = TRUE
    /\ max_time_hours \in RouteTimes
    /\ min_route_length \in RouteLengths
    /\ clusters_ret = NoOutcome
    /\ routes_ret = NoOutcome
    /\ upstream = NoUpstream
    /\ score = 0
    /\ factors = <<>>
    /\ risk_ret = NoOutcome
    /\ AggregatorIdle /\ ClientIdle /\ CacheIdle /\ EezIdle

PredictRoutes ==
    /\ op = "routes"
    /\ pc = "called"
    /\ routes_ret' = predict_routes(sar_detections, gap_events, max_time_hours,
                                    max_distance_km, min_route_length)
    /\ pc' = "returned"
    /\ UNCHANGED <<op, sar_detections, gap_events, max_distance_km, same_date_only,
                   max_time_hours, min_route_length, clusters_ret, upstream, score,
                   factors, risk_ret>>
    /\ UNCHANGED <<aggregatorVars, clientVars, cacheVars, eezVars>>

NextRoutes == PredictRoutes

SpecRoutes == InitRoutes /\ [][NextRoutes]_vars

-----------------------------------------------------------------------------
(* GFWApiClient: the pagination parameters of the event requests *)

\* Python values a caller can pass as limit / offset: None, an int, a bool
\* (a subclass of int: True is 1), a float (held x10) or a str.
PyNone == [type |-> "NoneType", val |-> 0]
PyInt(n) == [type |-> "int", val |-> n]

PaginationValues ==
    {PyNone}
    \cup [type : {"int"}, val : {-1, 0, 1, 2}]
    \cup [type : {"bool"}, val : {0, 1}]
    \cup [type : {"float"}, val : {15}]
    \cup [type : {"str"}, val : {10}]

\* An argument the caller leaves out takes the default of the signature.
Omitted == [type |-> "omitted", val |-> 0]

Given(arg, default) == IF arg = Omitted THEN default ELSE arg

\* isinstance(v, int)
IsInstanceInt(v) == v.type \in {"int", "bool"}

\* limit is not None and offset is not None and isinstance(limit, int) and
\* isinstance(offset, int) and limit >= 1 and offset >= 0
PaginationValid_LimitOnly(limit, offset) ==
    limit /= PyNone /\ IsInstanceInt(limit) /\ limit.val >= 1

PaginationValid(limit, offset) ==
    /\ limit /= PyNone /\ offset /= PyNone
    /\ IsInstanceInt(limit) /\ IsInstanceInt(offset)
    /\ limit.val >= 1 /\ offset.val >= 0

\* The pagination keys put in the payload / query parameters.  A key is set
\* only from an argument that was passed or defaulted to a value.
PaginationParams(limit, offset) ==
    IF PaginationValid(limit, offset)
    THEN [k \in {"limit", "offset"} |-> IF k = "limit" THEN limit ELSE offset]
    ELSE <<>>

\* {k: v for k, v in payload.items() if v is not None}
DropNone(params) == [k \in {key \in DOMAIN params : params[key] /= PyNone} |-> params[k]]

\* get_all_events(..., limit=1, offset=0): POST /events with the payload.
get_all_events_NoDefaults(limit, offset) ==
    [method |-> "POST", endpoint |-> "/events",
     params |-> PaginationParams(Given(limit, PyNone), Given(offset, PyNone))]

get_all_events(limit, offset) ==
    [method |-> "POST", endpoint |-> "/events",
     params |-> PaginationParams(Given(limit, PyInt(1)), Given(offset, PyInt(0)))]

\* get_gap_events(..., eez_id, limit=None, offset=None): POST /events with a
\* region when eez_id is given, GET /events otherwise.
get_gap_events(eez_id, limit, offset) ==
    [method |-> IF Truthy(eez_id) THEN "POST" ELSE "GET", endpoint |-> "/events",
     params |-> DropNone(PaginationParams(Given(limit, PyNone), Given(offset, PyNone)))]

-----------------------------------------------------------------------------
(* Risk scorer *)

\* Scores are held x10: 0.5 point per fishing event is 5, the cap of 15 is 150.

Huge == 10000       \* an extreme upstream counter

\* What the upstream may answer to get_vessel_insights: a failure, or insights
\* with or without the "gap" and "vesselIdentity" parts and their counters
\* (periodSelectedCounters.events, iuuVesselList.totalTimesListedInThePeriod).
GapCounters == {0, 1, 3, 4, 5, 6, Huge}
IuuCounters == {0, 1, 2}

InsightsAnswers ==
    {[ok |-> FALSE]}
    \cup [ok : {TRUE}, has_gap : {TRUE}, events : GapCounters,
          has_identity : {TRUE}, listed : IuuCounters]
    \cup [ok : {TRUE}, has_gap : {FALSE}, events : {0},
          has_identity : {TRUE, FALSE}, listed : {0}]
    \cup [ok : {TRUE}, has_gap : {TRUE}, events : {3},
          has_identity : {FALSE}, listed : {0}]

\* What the upstream may answer to get_all_events: a failure, a body that is
\* no dict, or a dict with a number of entries.
EventsAnswers(counts) ==
    {[ok |-> FALSE], [ok |-> TRUE, is_dict |-> FALSE, entries |-> 0]}
    \cup [ok : {TRUE}, is_dict : {TRUE}, entries : counts]

FishingCounts == {0, 1, 30, 31, Huge}
EncounterCounts == {0, 1, 10, 11, Huge}
PortCounts == {0, 1, 50, 51, Huge}

NotAsked == [ok |-> FALSE, asked |-> FALSE]

\* len(events.get("entries", [])) if isinstance(events, dict) else 0
EntryCount(answer) == IF answer.is_dict THEN answer.entries ELSE 0

\* gap_score = min(gap_count * 10, 50)
GapScore_Uncapped(gap_count) == gap_count * 100

GapScore(gap_count) == Min(gap_count * 100, 500)

\* An exception of this fetch reaches the outer handler of
\* calculate_risk_score: only get_vessel_insights is called outside the
\* per-factor try blocks.
Aborts_OnAnyFailure(fetch, answer) == ~answer.ok

Aborts(fetch, answer) == fetch = "insights" /\ ~answer.ok

\* The factor of one event fetch: count and score = min(count * per_event, cap),
\* both 0 when the fetch raised.
EventFactor_TwicePerEvent(answer, per_event, cap) ==
    IF ~answer.ok THEN [count |-> 0, score |-> 0]
    ELSE [count |-> EntryCount(answer),
          score |-> Min(EntryCount(answer) * 2 * per_event, cap)]

EventFactor(answer, per_event, cap) ==
    IF ~answer.ok THEN [count |-> 0, score |-> 0]
    ELSE [count |-> EntryCount(answer),
          score |-> Min(EntryCount(answer) * per_event, cap)]

\* risk_level from score
RiskLevel(sc) ==
    IF sc >= 700 THEN "high"
    ELSE IF sc >= 400 THEN "medium"
    ELSE "low"

\* The return of the outer except clause.
AbortedAssessment ==
    [status |-> "returned", risk_score |-> 0, risk_level |-> "unknown", error |-> TRUE]

\* The factors and score the insights give (the code before the event fetches).
GapFactors(insights) ==
    IF insights.has_gap
    THEN ("gap_events" :> insights.events) @@ ("gap_score" :> GapScore(insights.events))
    ELSE <<>>

IuuFactors(insights) ==
    IF ~insights.has_identity THEN <<>>
    ELSE IF insights.listed > 0
         THEN ("iuu_listed" :> TRUE) @@ ("iuu_count" :> insights.listed)
              @@ ("iuu_score" :> 500)
         ELSE ("iuu_listed" :> FALSE)

InsightsScore(insights) ==
    (IF insights.has_gap THEN GapScore(insights.events) ELSE 0)
    + (IF insights.has_identity /\ insights.listed > 0 THEN 500 ELSE 0)

InitRisk ==
    /\ op = "risk"
    /\ pc = "insights"
    /\ sar_detections = <<>>
    /\ gap_events = <<>>
    /\ max_distance_km = 0
    /\ same_date_only = TRUE
    /\ max_time_hours = 0
    /\ min_route_length = 0
    /\ clusters_ret = NoOutcome
    /\ routes_ret = NoOutcome
    /\ upstream = [insights |-> NotAsked, fishing |-> NotAsked,
                   encounters |-> NotAsked, port_visits |-> NotAsked]
    /\ score = 0
    /\ factors = <<>>
    /\ risk_ret = NoOutcome
    /\ AggregatorIdle /\ ClientIdle /\ CacheIdle /\ EezIdle

RiskUnchanged ==
    UNCHANGED <<op, sar_detections, gap_events, max_distance_km, same_date_only,
                max_time_hours, min_route_length, clusters_ret, routes_ret,
                aggregatorVars, clientVars, cacheVars, eezVars>>

\* get_vessel_insights answers; the gap and watchlist factors are scored and
\* the fishing events are asked for, or the call raised and the assessment is
\* aborted.
InsightsAnswered ==
    /\ op = "risk" /\ pc = "insights"
    /\ \E answer \in InsightsAnswers :
        /\ upstream' = [upstream EXCEPT !.insights = answer]
        /\ IF Aborts("insights", answer)
           THEN /\ risk_ret' = AbortedAssessment
                /\ pc' = "returned"
                /\ UNCHANGED <<score, factors>>
           ELSE /\ score' = InsightsScore(answer)
                /\ factors' = GapFactors(answer) @@ IuuFactors(answer)
                /\ pc' = "fishing"
                /\ UNCHANGED risk_ret
    /\ RiskUnchanged

\* self.client.get_all_events(datasets=..., vessels=..., start_date=...,
\* end_date=...): neither limit nor offset is passed.  The request that was
\* sent is kept with the answer.
EventsFetched(answer) == answer @@ [request |-> get_all_events(Omitted, Omitted)]

\* One event fetch answers: its factor is recorded and added to the score, and
\* the next fetch is made; an exception that is not caught aborts.
EventsAnswered(fetch, answers, count_key, score_key, per_event, cap, next_pc) ==
    /\ op = "risk" /\ pc = fetch
    /\ \E answer \in answers :
        /\ upstream' = [upstream EXCEPT ![fetch] = EventsFetched(answer)]
        /\ IF Aborts(fetch, answer)
           THEN /\ risk_ret' = AbortedAssessment
                /\ pc' = "returned"
                /\ UNCHANGED <<score, factors>>
           ELSE LET f == EventFactor(answer, per_event, cap)
                    new_score == score + f.score
                IN  /\ score' = new_score
                    /\ factors' = (count_key :> f.count) @@ (score_key :> f.score) @@ factors
                    /\ pc' = next_pc
                    /\ IF next_pc = "returned"
                       THEN risk_ret' = [status |-> "returned",
                                         risk_score |-> Min(new_score, 1000),
                                         risk_level |-> RiskLevel(new_score),
                                         factors |-> factors',
                                         error |-> FALSE]
                       ELSE UNCHANGED risk_ret
    /\ RiskUnchanged

FishingAnswered ==
    EventsAnswered("fishing", EventsAnswers(FishingCounts),
                   "fishing_events", "fishing_score", 5, 150, "encounters")

EncountersAnswered ==
    EventsAnswered("encounters", EventsAnswers(EncounterCounts),
                   "encounters", "encounter_score", 20, 200, "port_visits")

\* The last fetch; the risk level is computed and the assessment returned.
PortVisitsAnswered ==
    EventsAnswered("port_visits", EventsAnswers(PortCounts),
                   "port_visits", "port_score", 3, 150, "returned")

NextRisk ==
    \/ InsightsAnswered
    \/ FishingAnswered
    \/ EncountersAnswered
    \/ PortVisitsAnswered

SpecRisk == InitRisk /\ [][NextRisk]_vars

-----------------------------------------------------------------------------
(* Calls of the client's event methods *)

ClientCalls ==
    [method : {"get_all_events"}, eez_id : {None},
     limit : PaginationValues \cup {Omitted}, offset : PaginationValues \cup {Omitted}]
    \cup [method : {"get_gap_events"}, eez_id : {None, 1},
          limit : PaginationValues \cup {Omitted}, offset : PaginationValues \cup {Omitted}]

InitClient ==
    /\ op = "client"
    /\ pc = "called"
    /\ client_call \in ClientCalls
    /\ request = <<>>
    /\ ServiceIdle /\ AggregatorIdle /\ CacheIdle /\ EezIdle

GetAllEvents ==
    /\ op = "client" /\ pc = "called"
    /\ client_call.method = "get_all_events"
    /\ request' = get_all_events(client_call.limit, client_call.offset)
    /\ pc' = "sent"
    /\ UNCHANGED <<op, client_call, serviceVars, aggregatorVars, cacheVars, eezVars>>

GetGapEvents ==
    /\ op = "client" /\ pc = "called"
    /\ client_call.method = "get_gap_events"
    /\ request' = get_gap_events(client_call.eez_id, client_call.limit, client_call.offset)
    /\ pc' = "sent"
    /\ UNCHANGED <<op, client_call, serviceVars, aggregatorVars, cacheVars, eezVars>>

NextClient == GetAllEvents \/ GetGapEvents

SpecClient == InitClient /\ [][NextClient]_vars

-----------------------------------------------------------------------------
(* Dark vessel aggregator: dates and date chunks *)

MaxSpan == 95       \* longest requested span, in days (end - start + 1)

\* A date string "YYYY-MM-DD" is the tuple <<year, month, day>>; a datetime is
\* the number of its day, day 1 being the first of January of YearZero.  The
\* years modelled are not leap years.
YearZero == 2025

MonthDays == <<31, 28, 31, 30, 31, 30, 31, 31, 30, 31, 30, 31>>

DaysInYear == SumSeq(MonthDays)

\* datetime.strptime(date_str, "%Y-%m-%d")
strptime(date_str) ==
    (date_str[1] - YearZero) * DaysInYear
    + SumSeq(SubSeq(MonthDays, 1, date_str[2] - 1)) + date_str[3]

RECURSIVE MonthAndDay(_, _)
MonthAndDay(day_of_year, month) ==
    IF day_of_year <= MonthDays[month] THEN <<month, day_of_year>>
    ELSE MonthAndDay(day_of_year - MonthDays[month], month + 1)

\* dt.strftime("%Y-%m-%d")
strftime(dt) ==
    LET md == MonthAndDay(((dt - 1) % DaysInYear) + 1, 1)
    IN  <<YearZero + ((dt - 1) \div DaysInYear), md[1], md[2]>>

\* The while loop of _split_date_range from current_start on.
RECURSIVE SplitFrom(_, _, _)
SplitFrom(current_start, end, chunk_days) ==
    IF current_start < end
    THEN LET current_end == Min(current_start + (chunk_days - 1), end)
         IN  <<<<strftime(current_start), strftime(current_end)>>>>
             \o SplitFrom(current_end + 1, end, chunk_days)
    ELSE <<>>

split_date_range(start, end, chunk_days) ==
    SplitFrom(strptime(start), strptime(end), chunk_days)

\* date_chunks of get_dark_vessels: split when the inclusive span exceeds 30
\* days.
DateChunks_NeverSplit(start, end) == <<<<start, end>>>>

DateChunks(start, end) ==
    LET days_diff == (strptime(end) - strptime(start)) + 1
    IN  IF days_diff > 30
        THEN split_date_range(start, end, 30)
        ELSE <<<<start, end>>>>

-----------------------------------------------------------------------------
(* Dark vessel aggregator: get_dark_vessels *)

\* What the upstream can answer to create_report for a region and a chunk: a
\* failure, a report without entries, the region's unmatched detection, or,
\* when it ignores the matched='false' filter, also a detection that is
\* matched with AIS.  ais_matched is what the detection really is; the
\* upstream record itself has only date, detections, lat and lon.
UpstreamDetection(eez_id, chunk, is_matched) ==
    [lat |-> IF is_matched THEN eez_id + 10 ELSE eez_id, lon |-> LonM,
     date |-> chunk[1], detections |-> 1, ais_matched |-> is_matched]

\* A JSON value that is no dict (null, a string), and a list that stands where
\* a dict is expected; dicts are records without py_type.
NotADict(type) == [py_type |-> type]
ListItem(items) == [py_type |-> "list", items |-> items]
IsDict(x) == "py_type" \notin DOMAIN x

\* A detection item without "lon"
DetectionWithoutLon(eez_id, chunk) ==
    [lat |-> eez_id, date |-> chunk[1], detections |-> 1, ais_matched |-> FALSE]

\* The region whose calls the upstream also answers in other shapes than the
\* documented ones; the regions 1 and 2 are answered as documented.
OtherShapesRegion == 3

\* A successful answer has a shape: "entries" is the documented one,
\* {"entries": [{"public-global-sar-presence:v3.0": [...]}]} with the
\* detection items under `entries` here; "entry_not_dict" is
\* {"entries": ["n/a"]}, and "no_sar_key" is {"entries": [{"other": [...]}]}.
ReportAnswers(eez_id, chunk) ==
    {[ok |-> FALSE, shape |-> "error", entries |-> <<>>],
     [ok |-> TRUE, shape |-> "entries", entries |-> <<>>],
     [ok |-> TRUE, shape |-> "entries",
      entries |-> <<UpstreamDetection(eez_id, chunk, FALSE)>>],
     [ok |-> TRUE, shape |-> "entries",
      entries |-> <<UpstreamDetection(eez_id, chunk, FALSE),
                    UpstreamDetection(eez_id, chunk, TRUE)>>]}
    \cup
    IF eez_id /= OtherShapesRegion THEN {}
    ELSE {[ok |-> TRUE, shape |-> "entry_not_dict", entries |-> <<>>],
          [ok |-> TRUE, shape |-> "no_sar_key",
           entries |-> <<UpstreamDetection(eez_id, chunk, FALSE)>>],
          [ok |-> TRUE, shape |-> "entries",
           entries |-> <<DetectionWithoutLon(eez_id, chunk)>>],
          [ok |-> TRUE, shape |-> "entries",
           entries |-> <<UpstreamDetection(eez_id, chunk, FALSE), NotADict("NoneType")>>]}

\* What the upstream can answer to get_gap_events: a failure, no event, the
\* gap event of a vessel of the region in a dict under "entries" (shape
\* "entries") or in a bare list (shape "list"), a dict with none of the keys
\* entries, data and results (shape "other"), or a bare list of strings.
UpstreamGap(eez_id, chunk) == [vessel_id |-> eez_id, start |-> chunk[1]]

GapAnswers(eez_id, chunk) ==
    {[ok |-> FALSE, shape |-> "error", entries |-> <<>>],
     [ok |-> TRUE, shape |-> "entries", entries |-> <<>>],
     [ok |-> TRUE, shape |-> "entries", entries |-> <<UpstreamGap(eez_id, chunk)>>]}
    \cup
    IF eez_id /= OtherShapesRegion THEN {}
    ELSE {[ok |-> TRUE, shape |-> "list", entries |-> <<UpstreamGap(eez_id, chunk)>>],
          [ok |-> TRUE, shape |-> "other", entries |-> <<>>],
          [ok |-> TRUE, shape |-> "list", entries |-> <<NotADict("str"), NotADict("str")>>]}

\* converted_det: the record built from an upstream detection
ConvertedDet(det) ==
    [latitude |-> det.lat, longitude |-> det.lon, date |-> det.date,
     detections |-> det.detections, matched |-> FALSE]

\* Lines 102-125 raise (and the except of line 133 swallows it, before the
\* extend of line 127) on entry.keys() of an entry that is no dict and on
\* "lat" in det of an item that is null.
ReportRaises(report) ==
    \/ report.shape = "entry_not_dict"
    \/ /\ report.shape = "entries"
       /\ \E k \in DOMAIN report.entries : ~IsDict(report.entries[k])

\* detections = entry[dataset_key], for the entries that have a sar-presence key
DatasetItems(report) == IF report.shape = "entries" THEN report.entries ELSE <<>>

\* if "lat" in det and "lon" in det
HasLatAndLon(det) == "lat" \in DOMAIN det /\ "lon" \in DOMAIN det

\* chunk_detections of one report, as far as they reach sar_detections
ChunkDetections_FirstOnly(report) ==
    IF ReportRaises(report) THEN <<>>
    ELSE LET dets == SelectSeq(DatasetItems(report), HasLatAndLon)
         IN  [k \in DOMAIN dets \cap {1} |-> ConvertedDet(dets[k])]

ChunkDetections(report) ==
    IF ReportRaises(report) THEN <<>>
    ELSE LET dets == SelectSeq(DatasetItems(report), HasLatAndLon)
         IN  [k \in DOMAIN dets |-> ConvertedDet(dets[k])]

\* gap_list of one gap answer, lines 154-160: the list under "entries" or the
\* bare list, wrapped in a list when its first item is no dict
GapList(gaps) ==
    LET gap_list == IF gaps.shape \in {"entries", "list"} THEN gaps.entries ELSE <<>>
    IN  IF Len(gap_list) > 0 /\ ~IsDict(gap_list[1])
        THEN <<ListItem(gap_list)>>
        ELSE gap_list

\* date_chunks.index(chunk), counted from 1
IndexOf(seq, x) ==
    CHOOSE k \in DOMAIN seq : seq[k] = x /\ \A l \in 1..(k - 1) : seq[l] /= x

\* if i > 0 or date_chunks.index((chunk_start, chunk_end)) > 0
SleepsBefore_FirstOfRegionOnly(i, chunks, chunk) == IndexOf(chunks, chunk) = 1 /\ i > 1

SleepsBefore(i, chunks, chunk) == i > 1 \/ IndexOf(chunks, chunk) > 1

\* The loop indices after the iteration (i, j) of `for eez_id ...: for chunk ...`
NextIteration(it, chunks) ==
    IF it.j < Len(chunks) THEN [i |-> it.i, j |-> it.j + 1]
    ELSE [i |-> it.i + 1, j |-> 1]

FirstIteration == [i |-> 1, j |-> 1]

ReportCall(eez_id, chunk) ==
    [api |-> "create_report", eez_id |-> eez_id, start_date |-> chunk[1],
     end_date |-> chunk[2], filters |-> "matched='false'"]

\* The gap fetch passes neither limit nor offset.
GapCall(eez_id, chunk) ==
    [api |-> "get_gap_events", eez_id |-> eez_id, start_date |-> chunk[1],
     end_date |-> chunk[2], request |-> get_gap_events(eez_id, Omitted, Omitted)]

Sleep == [kind |-> "sleep", seconds |-> 1]
Issued(call) == [kind |-> "issue", call |-> call]
Answered(call, answer) == [kind |-> "answer", call |-> call, ok |-> answer.ok,
                           shape |-> answer.shape, entries |-> answer.entries]

\* The requests of the route handlers: one or two regions, SAR always
\* included, any span for one region and a few spans for two; one or two
\* chunks for the region answered in other shapes.
StartDates == {<<YearZero, 1, 30>>, <<YearZero, 4, 1>>, <<YearZero, 12, 15>>}

DarkVesselCalls ==
    [eez_ids : {<<1>>}, start : StartDates, span : 0..MaxSpan, include_gaps : {FALSE}]
    \cup [eez_ids : {<<1>>, <<1, 2>>}, start : {<<YearZero, 4, 1>>},
          span : {10, 31, 45}, include_gaps : BOOLEAN]
    \cup [eez_ids : {<<1>>}, start : {<<YearZero, 4, 1>>}, span : {90},
          include_gaps : {TRUE}]
    \cup [eez_ids : {<<OtherShapesRegion>>}, start : {<<YearZero, 4, 1>>},
          span : {10, 45}, include_gaps : BOOLEAN]
    \cup [eez_ids : {<<1, OtherShapesRegion>>}, start : {<<YearZero, 4, 1>>},
          span : {10}, include_gaps : BOOLEAN]

InitDarkVessels ==
    /\ op = "dark_vessels"
    /\ pc = "called"
    /\ \E c \in DarkVesselCalls :
        /\ eez_ids = c.eez_ids
        /\ start_date = c.start
        /\ end_date = strftime(strptime(c.start) + c.span - 1)
        /\ include_gaps = c.include_gaps
    /\ include_sar = TRUE
    /\ date_chunks = <<>>
    /\ loop = FirstIteration
    /\ in_flight = {}
    /\ calls = <<>>
    /\ results = [sar_detections |-> <<>>, gap_events |-> <<>>,
                  combined |-> {}, summary |-> <<>>]
    /\ ServiceIdle /\ ClientIdle /\ CacheIdle /\ EezIdle

AggregatorArgsUnchanged ==
    UNCHANGED <<op, eez_ids, start_date, end_date, include_sar, include_gaps,
                serviceVars, clientVars, cacheVars, eezVars>>

\* Lines 54-71: the chunks are computed.
ChunkDates ==
    /\ op = "dark_vessels" /\ pc = "called"
    /\ date_chunks' = DateChunks(start_date, end_date)
    /\ pc' = "sar"
    /\ UNCHANGED <<loop, in_flight, calls, results>>
    /\ AggregatorArgsUnchanged

\* One iteration of the SAR loops up to the report call: the delay, then the
\* call.
IssueReport ==
    /\ op = "dark_vessels" /\ pc = "sar"
    /\ include_sar /\ loop.i <= Len(eez_ids)
    /\ LET chunk == date_chunks[loop.j]
           call == ReportCall(eez_ids[loop.i], chunk)
       IN  /\ calls' = calls
                       \o (IF SleepsBefore(loop.i, date_chunks, chunk) THEN <<Sleep>> ELSE <<>>)
                       \o <<Issued(call)>>
           /\ in_flight' = in_flight \cup {call}
    /\ pc' = "report"
    /\ UNCHANGED <<date_chunks, loop, results>>
    /\ AggregatorArgsUnchanged

\* create_report returns or raises; the rest of the iteration.
ReportAnswered ==
    /\ op = "dark_vessels" /\ pc = "report"
    /\ LET chunk == date_chunks[loop.j]
           call == ReportCall(eez_ids[loop.i], chunk)
       IN  \E report \in ReportAnswers(eez_ids[loop.i], chunk) :
             /\ calls' = Append(calls, Answered(call, report))
             /\ in_flight' = in_flight \ {call}
             /\ results' = IF report.ok
                           THEN [results EXCEPT !.sar_detections = @ \o ChunkDetections(report)]
                           ELSE results
    /\ loop' = NextIteration(loop, date_chunks)
    /\ pc' = "sar"
    /\ UNCHANGED date_chunks
    /\ AggregatorArgsUnchanged

\* The SAR loops are over (or skipped): on to the gap loops.
StartGaps ==
    /\ op = "dark_vessels" /\ pc = "sar"
    /\ ~include_sar \/ loop.i > Len(eez_ids)
    /\ loop' = FirstIteration
    /\ pc' = "gaps"
    /\ UNCHANGED <<date_chunks, in_flight, calls, results>>
    /\ AggregatorArgsUnchanged

IssueGaps ==
    /\ op = "dark_vessels" /\ pc = "gaps"
    /\ include_gaps /\ loop.i <= Len(eez_ids)
    /\ LET call == GapCall(eez_ids[loop.i], date_chunks[loop.j])
       IN  /\ calls' = Append(calls, Issued(call))
           /\ in_flight' = in_flight \cup {call}
    /\ pc' = "gap_events"
    /\ UNCHANGED <<date_chunks, loop, results>>
    /\ AggregatorArgsUnchanged

GapsAnswered ==
    /\ op = "dark_vessels" /\ pc = "gap_events"
    /\ LET chunk == date_chunks[loop.j]
           call == GapCall(eez_ids[loop.i], chunk)
       IN  \E gaps \in GapAnswers(eez_ids[loop.i], chunk) :
             /\ calls' = Append(calls, Answered(call, gaps))
             /\ in_flight' = in_flight \ {call}
             /\ results' = IF gaps.ok /\ Len(GapList(gaps)) > 0
                           THEN [results EXCEPT !.gap_events = @ \o GapList(gaps)]
                           ELSE results
    /\ loop' = NextIteration(loop, date_chunks)
    /\ pc' = "gaps"
    /\ UNCHANGED date_chunks
    /\ AggregatorArgsUnchanged

\* Lines 170-184: the vessel ids are cross-referenced and the summary made.
ReturnDarkVessels ==
    /\ op = "dark_vessels" /\ pc = "gaps"
    /\ ~include_gaps \/ loop.i > Len(eez_ids)
    /\ LET items == results.sar_detections \o results.gap_events
           vessel_ids == {extract_vessel_id(items[k]) : k \in DOMAIN items} \ {None, 0}
       IN  results' = [results EXCEPT
                         !.combined = vessel_ids,
                         !.summary = [total_sar_detections |-> Len(results.sar_detections),
                                      total_gap_events |-> Len(results.gap_events),
                                      unique_vessels |-> Cardinality(vessel_ids),
                                      unique_detection_points |-> Len(results.sar_detections),
                                      eez_count |-> Len(eez_ids)]]
    /\ pc' = "returned"
    /\ UNCHANGED <<date_chunks, loop, in_flight, calls>>
    /\ AggregatorArgsUnchanged

NextDarkVessels ==
    \/ ChunkDates
    \/ IssueReport
    \/ ReportAnswered
    \/ StartGaps
    \/ IssueGaps
    \/ GapsAnswered
    \/ ReturnDarkVessels

SpecDarkVessels == InitDarkVessels /\ [][NextDarkVessels]_vars

-----------------------------------------------------------------------------
(* The event requests of the client and of the aggregator together *)

InitPagination == InitClient \/ InitDarkVessels

NextPagination == NextClient \/ NextDarkVessels

SpecPagination == InitPagination /\ [][NextPagination]_vars

-----------------------------------------------------------------------------
(* Response cache: TTLCache and the /api/bins handler *)

MaxClock == 4       \* the clock runs from 0 to MaxClock ticks
MaxRequests == 4    \* requests handled in one run

\* _CACHE = TTLCache(max_items=...): the capacity, scaled down from 512.
max_items == 2

\* default_ttl_seconds(), in ticks (scaled down from 300 seconds).
default_ttl_seconds == 2

\* The query strings of the requests to /api/bins/3: three with start_date
\* and end_date, one without end_date.
BinsQueries ==
    [start_date : {1, 2, 3}, end_date : {5}] \cup [start_date : {1}, end_date : {None}]

\* make_cache_key(method, path, query_args): method, path and the query
\* arguments sorted by name.
make_cache_key(method, path, query_args) ==
    [m |-> method, p |-> path, q |-> <<<<"end_date", query_args.end_date>>,
                                       <<"start_date", query_args.start_date>>>>]

\* The payloads the upstream can answer to get_bins.
BinsPayloads == {1, 2}

\* Position of the key in the store (a dict, in insertion order), 0 if absent.
PositionOf(st, key) ==
    IF \E k \in DOMAIN st : st[k].key = key
    THEN CHOOSE k \in DOMAIN st : st[k].key = key
    ELSE 0

\* self._store.pop(key, None)
Pop(st, key) == SelectSeq(st, LAMBDA ent : ent.key /= key)

\* ent.expires_at <= now
Expired_Never(ent, t) == FALSE

Expired(ent, t) == ent.expires_at <= t

\* TTLCache.get at time t: the store afterwards and the answer.
cache_get(st, key, t) ==
    LET pos == PositionOf(st, key)
    IN  IF pos = 0 THEN [store |-> st, hit |-> FALSE]
        ELSE IF Expired(st[pos], t) THEN [store |-> Pop(st, key), hit |-> FALSE]
        ELSE [store |-> st, hit |-> TRUE, payload |-> st[pos].payload,
              status_code |-> st[pos].status_code]

\* The eviction loop of TTLCache.set over expired_keys: pop until the store is
\* below max_items.
RECURSIVE PopExpired(_, _)
PopExpired(st, expired_keys) ==
    IF expired_keys = <<>> THEN st
    ELSE LET popped == Pop(st, Head(expired_keys))
         IN  IF Len(popped) < max_items THEN popped
             ELSE PopExpired(popped, Tail(expired_keys))

\* self._store[key] = entry: in place when the key is there, else at the end.
Assign(st, entry) ==
    IF PositionOf(st, entry.key) /= 0
    THEN [st EXCEPT ![PositionOf(st, entry.key)] = entry]
    ELSE Append(st, entry)

\* TTLCache.set at time t
cache_set(st, key, payload, status_code, ttl_seconds, t) ==
    LET expires_at == t + (IF ttl_seconds > 1 THEN ttl_seconds ELSE 1)
        expired == SelectSeq(st, LAMBDA ent : Expired(ent, t))
        pruned == IF Len(st) >= max_items
                  THEN PopExpired(st, [k \in DOMAIN expired |-> expired[k].key])
                  ELSE st
        room == IF Len(pruned) >= max_items THEN Tail(pruned) ELSE pruned
    IN  Assign(room, [key |-> key, expires_at |-> expires_at,
                      payload |-> payload, status_code |-> status_code])

NoResponse == [n |-> 0]

NeverAnswered == [at |-> None]

InitCache ==
    /\ op = "bins"
    /\ pc = "serving"
    /\ store = <<>>
    /\ now = 0
    /\ upstream_calls = 0
    /\ response = NoResponse
    /\ answered = [q \in BinsQueries |-> NeverAnswered]
    /\ ServiceIdle /\ AggregatorIdle /\ ClientIdle /\ EezIdle

CacheFrame == UNCHANGED <<op, pc, serviceVars, aggregatorVars, clientVars, eezVars>>

\* time passes
Tick ==
    /\ op \in {"bins", "risk_score"}
    /\ now < MaxClock
    /\ now' = now + 1
    /\ UNCHANGED <<store, upstream_calls, response, answered>>
    /\ CacheFrame

\* get_bins answers from the cache (lines 34-39).
BinsFromCache(query) ==
    LET key == make_cache_key("GET", "/api/bins/3", query)
        cached == cache_get(store, key, now)
    IN  /\ cached.hit
        /\ store' = cached.store
        /\ response' = [n |-> response.n + 1, query |-> query, cached |-> TRUE,
                        payload |-> cached.payload, status |-> cached.status_code]
        /\ UNCHANGED <<upstream_calls, answered>>

\* get_bins misses the cache and a parameter is missing (lines 41-44).
BinsBadRequest(query) ==
    LET key == make_cache_key("GET", "/api/bins/3", query)
        cached == cache_get(store, key, now)
    IN  /\ ~cached.hit
        /\ ~Truthy(query.start_date) \/ ~Truthy(query.end_date)
        /\ store' = cached.store
        /\ response' = [n |-> response.n + 1, query |-> query, cached |-> FALSE,
                        payload |-> "error", status |-> 400]
        /\ UNCHANGED <<upstream_calls, answered>>

\* get_bins misses the cache and asks the upstream (lines 41-76): the answer
\* is cached and returned, or the call raised and the handler answers 500.
BinsFromUpstream(query) ==
    LET key == make_cache_key("GET", "/api/bins/3", query)
        cached == cache_get(store, key, now)
    IN  /\ ~cached.hit
        /\ Truthy(query.start_date) /\ Truthy(query.end_date)
        /\ upstream_calls' = upstream_calls + 1
        /\ \/ \E bins \in BinsPayloads :
                /\ store' = cache_set(cached.store, key, bins, 200, default_ttl_seconds, now)
                /\ response' = [n |-> response.n + 1, query |-> query, cached |-> FALSE,
                                payload |-> bins, status |-> 200]
                /\ answered' = [answered EXCEPT ![query] = [at |-> now, payload |-> bins]]
           \/ /\ store' = cached.store
              /\ response' = [n |-> response.n + 1, query |-> query, cached |-> FALSE,
                              payload |-> "error", status |-> 500]
              /\ UNCHANGED answered

GetBins ==
    /\ op = "bins"
    /\ response.n < MaxRequests
    /\ \E query \in BinsQueries :
         \/ BinsFromCache(query)
         \/ BinsBadRequest(query)
         \/ BinsFromUpstream(query)
    /\ UNCHANGED now
    /\ CacheFrame

NextCache == Tick \/ GetBins

SpecCache == InitCache /\ [][NextCache]_vars

-----------------------------------------------------------------------------
(* parse_eez_ids *)

MaxValues == 3      \* most values of the eez_ids parameter in one request

\* The ids used, in the order sorted() puts them in.
Alphabetical ==
    <<"", "8493", "Dominican Republic", "Dominican Republic - All Territories",
      "France", "France - All Territories", "French Guiana", "Guadeloupe",
      "Martinique">>

EezNames == Range(Alphabetical)

\* sorted(ids), for a set of ids
Sorted(ids) == SelectSeq(Alphabetical, LAMBDA name : name \in ids)

\* parent_to_children, in the order of the dict
Parents == <<"France - All Territories", "Dominican Republic - All Territories">>

parent_to_children(parent) ==
    IF parent = "France - All Territories"
    THEN {"France", "French Guiana", "Guadeloupe", "Martinique"}
    ELSE {"Dominican Republic"}

\* The value of the eez_ids parameter: repeated plain values, or one value
\* holding a comma-separated or JSON list.
EezRequests ==
    [form : {"repeated"}, ids : SeqsUpTo(EezNames, MaxValues)]
    \cup [form : {"comma", "json"},
          ids : {ids \in SeqsUpTo(EezNames \ {""}, 2) : Len(ids) = 2}]

\* eez_ids as parsed from the request (lines 125-157)
ParsedIds(req) ==
    IF req.form = "repeated"
    THEN IF Len(req.ids) = 0 THEN {}
         ELSE IF Len(req.ids) = 1 THEN {req.ids[1]}
         ELSE {req.ids[k] : k \in DOMAIN req.ids} \ {""}
    ELSE Range(req.ids)

\* Lines 169-172: each selected id, and the children of a selected parent.
WithChildren(selected) ==
    selected \cup UNION {parent_to_children(p) : p \in Range(Parents) \cap selected}

\* Lines 175-178, for the parents from position n on: the children of a
\* selected parent are added and those not selected themselves removed.
RECURSIVE DeselectChildren(_, _, _)
DeselectChildren(final_selection, selected, n) ==
    IF n > Len(Parents) THEN final_selection
    ELSE LET children == parent_to_children(Parents[n])
             updated == IF Parents[n] \in selected
                        THEN (final_selection \cup children) \ (children \ selected)
                        ELSE final_selection
         IN  DeselectChildren(updated, selected, n + 1)

\* Lines 181-183: a parent is dropped when one of its children is selected.
DropParents(final_selection, selected) ==
    final_selection \ {p \in Range(Parents) : parent_to_children(p) \cap selected /= {}}

\* prioritize_parents is not read by the function.
parse_eez_ids(req, prioritize_parents) ==
    LET selected == ParsedIds(req)
    IN  Sorted(DropParents(DeselectChildren(WithChildren(selected), selected, 1), selected))

InitEez ==
    /\ op = "parse_eez_ids"
    /\ pc = "called"
    /\ eez_args \in [request : EezRequests, prioritize_parents : BOOLEAN]
    /\ eez_ret = <<>>
    /\ ServiceIdle /\ AggregatorIdle /\ ClientIdle /\ CacheIdle

ParseEezIds ==
    /\ op = "parse_eez_ids" /\ pc = "called"
    /\ eez_ret' = parse_eez_ids(eez_args.request, eez_args.prioritize_parents)
    /\ pc' = "returned"
    /\ UNCHANGED <<op, eez_args, serviceVars, aggregatorVars, clientVars, cacheVars>>

NextEez == ParseEezIds

SpecEez == InitEez /\ [][NextEez]_vars

-----------------------------------------------------------------------------
(* Response cache and the /api/analytics/risk-score/<vessel_id> handler *)

\* calculate_risk_score as one call: the assessment for the answers of the
\* four fetches.
calculate_risk_score(insights, fishing, encounters, port_visits) ==
    IF Aborts("insights", insights) THEN AbortedAssessment
    ELSE LET f == EventFactor(fishing, 5, 150)
             e == EventFactor(encounters, 20, 200)
             p == EventFactor(port_visits, 3, 150)
             total == InsightsScore(insights) + f.score + e.score + p.score
         IN  [status |-> "returned",
              risk_score |-> Min(total, 1000),
              risk_level |-> RiskLevel(total),
              factors |-> ("port_visits" :> p.count) @@ ("port_score" :> p.score)
                          @@ ("encounters" :> e.count) @@ ("encounter_score" :> e.score)
                          @@ ("fishing_events" :> f.count) @@ ("fishing_score" :> f.score)
                          @@ GapFactors(insights) @@ IuuFactors(insights),
              error |-> FALSE]

\* The query strings of the requests to /api/analytics/risk-score/v1: two
\* with both dates, one without end_date.
RiskQueries ==
    [start_date : {1, 2}, end_date : {5}] \cup [start_date : {1}, end_date : {None}]

\* What the upstream answers while a risk score is computed: the insights
\* fail or come with three gap events, each event fetch fails or has one entry.
RiskInsights ==
    {[ok |-> FALSE],
     [ok |-> TRUE, has_gap |-> TRUE, events |-> 3, has_identity |-> TRUE, listed |-> 0]}

RiskEvents == {[ok |-> FALSE], [ok |-> TRUE, is_dict |-> TRUE, entries |-> 1]}

InitRiskCache ==
    /\ op = "risk_score"
    /\ pc = "serving"
    /\ store = <<>>
    /\ now = 0
    /\ upstream_calls = 0
    /\ response = NoResponse
    /\ answered = <<>>
    /\ ServiceIdle /\ AggregatorIdle /\ ClientIdle /\ EezIdle

\* get_risk_score answers from the cache (lines 146-151).
RiskFromCache(query) ==
    LET key == make_cache_key("GET", "/api/analytics/risk-score/v1", query)
        cached == cache_get(store, key, now)
    IN  /\ cached.hit
        /\ store' = cached.store
        /\ response' = [n |-> response.n + 1, query |-> query, cached |-> TRUE,
                        payload |-> cached.payload, status |-> cached.status_code]
        /\ UNCHANGED upstream_calls

\* get_risk_score misses the cache and a date is missing (lines 153-157).
RiskBadRequest(query) ==
    LET key == make_cache_key("GET", "/api/analytics/risk-score/v1", query)
        cached == cache_get(store, key, now)
    IN  /\ ~cached.hit
        /\ ~Truthy(query.start_date) \/ ~Truthy(query.end_date)
        /\ store' = cached.store
        /\ response' = [n |-> response.n + 1, query |-> query, cached |-> FALSE,
                        payload |-> [status |-> "error"], status |-> 400]
        /\ UNCHANGED upstream_calls

\* get_risk_score misses the cache and has the score computed (lines
\* 163-167): whatever calculate_risk_score returns is cached and returned.
RiskFromService(query) ==
    LET key == make_cache_key("GET", "/api/analytics/risk-score/v1", query)
        cached == cache_get(store, key, now)
    IN  /\ ~cached.hit
        /\ Truthy(query.start_date) /\ Truthy(query.end_date)
        /\ upstream_calls' = upstream_calls + 1
        /\ \E insights \in RiskInsights : \E fishing, encounters, port_visits \in RiskEvents :
             LET risk == calculate_risk_score(insights, fishing, encounters, port_visits)
             IN  /\ store' = cache_set(cached.store, key, risk, 200, default_ttl_seconds, now)
                 /\ response' = [n |-> response.n + 1, query |-> query, cached |-> FALSE,
                                 payload |-> risk, status |-> 200]

GetRiskScore ==
    /\ op = "risk_score"
    /\ response.n < MaxRequests
    /\ \E query \in RiskQueries :
         \/ RiskFromCache(query)
         \/ RiskBadRequest(query)
         \/ RiskFromService(query)
    /\ UNCHANGED <<now, answered>>
    /\ CacheFrame

NextRiskCache == Tick \/ GetRiskScore

SpecRiskCache == InitRiskCache /\ [][NextRiskCache]_vars

-----------------------------------------------------------------------------
(* The backend as a whole: one component exercised at a time *)

Init ==
    \/ InitClusters \/ InitRoutes \/ InitRisk
    \/ InitDarkVessels \/ InitClient \/ InitCache \/ InitEez
    \/ InitRiskCache

Next ==
    \/ NextClusters \/ NextRoutes \/ NextRisk
    \/ NextDarkVessels \/ NextClient \/ NextCache \/ NextEez
    \/ NextRiskCache

Spec == Init /\ [][Next]_vars

-----------------------------------------------------------------------------
(* Properties of the cluster detector *)

ClustersReturned ==
    op = "clusters" /\ pc = "returned" /\ clusters_ret.status = "returned"

ReturnedClusters == IF ClustersReturned THEN Range(clusters_ret.clusters) ELSE {}

\* C1: every cluster detect_proximity_clusters returns has detection_count >= 2,
\* and its detections list has exactly detection_count members.
C1_MinTwoDetections ==
    \A c \in ReturnedClusters :
        /\ c.detection_count >= 2
        /\ Len(c.detections) = c.detection_count

\* A call has returned at least one cluster.
C1_Witness == ReturnedClusters /= {}

\* C2: a returned cluster is 'high' iff vessel_count >= 3, 'medium' iff
\* vessel_count = 2, never 'low'; vessel_count is the sum of its members' counts.
C2_RiskTier ==
    \A c \in ReturnedClusters :
        /\ c.vessel_count = SumSeq([k \in DOMAIN c.detections |-> c.detections[k].detections])
        /\ (c.risk_indicator = "high") <=> (c.vessel_count >= 3)
        /\ (c.risk_indicator = "medium") <=> (c.vessel_count = 2)
        /\ c.risk_indicator /= "low"

\* Both tiers are returned by one call, the high one from two detections only.
C2_Witness ==
    /\ \E c \in ReturnedClusters : c.vessel_count = 3 /\ c.detection_count = 2
                                   /\ c.risk_indicator = "high"
    /\ \E c \in ReturnedClusters : c.vessel_count = 2 /\ c.risk_indicator = "medium"

\* A record whose coordinates are numbers (0 included).
NumericCoords(det) == det.latitude /= None /\ det.longitude /= None

\* The distance between two input records, x10.
RecordDistance(d1, d2) ==
    haversine_distance(d1.latitude, d1.longitude, d2.latitude, d2.longitude)

\* C3: two or more detections of one date, pairwise within max_distance_km,
\* with same_date_only: exactly one cluster, holding all of them.
C3_SingleGroupOneCluster ==
    ( /\ op = "clusters" /\ pc = "returned"
      /\ same_date_only
      /\ Len(sar_detections) >= 2
      /\ \A a \in DOMAIN sar_detections :
            /\ NumericCoords(sar_detections[a])
            /\ sar_detections[a].date /= None
            /\ sar_detections[a].date = sar_detections[1].date
      /\ \A a, b \in DOMAIN sar_detections :
            RecordDistance(sar_detections[a], sar_detections[b]) <= max_distance_km )
    => /\ clusters_ret.status = "returned"
       /\ Len(clusters_ret.clusters) = 1
       /\ clusters_ret.clusters[1].detection_count = Len(sar_detections)

\* The detections position a is filed with: all of them, or those of its date.
SamePartition(a, b) ==
    same_date_only => DateKey(sar_detections[a]) = DateKey(sar_detections[b])

\* The graph of the claim: two detections of one partition are linked when
\* their distance is at most max_distance_km.
Linked(a, b) ==
    /\ a /= b
    /\ SamePartition(a, b)
    /\ NumericCoords(sar_detections[a]) /\ NumericCoords(sar_detections[b])
    /\ RecordDistance(sar_detections[a], sar_detections[b]) <= max_distance_km

RECURSIVE Reach(_, _)
Reach(S, n) ==
    IF n = 0 THEN S
    ELSE Reach(S \cup {b \in DOMAIN sar_detections : \E a \in S : Linked(a, b)}, n - 1)

Component(a) == Reach({a}, Len(sar_detections))

\* C4: within a partition the returned clusters are exactly the connected
\* components of size >= 2 of the max_distance_km graph.
C4_ConnectedComponents ==
    ClustersReturned =>
        /\ {Range(c.members) : c \in ReturnedClusters}
             = {Component(a) : a \in {b \in DOMAIN sar_detections : Cardinality(Component(b)) >= 2}}
        /\ \A k, m \in DOMAIN clusters_ret.clusters :
             k /= m => Range(clusters_ret.clusters[k].members)
                         \cap Range(clusters_ret.clusters[m].members) = {}

-----------------------------------------------------------------------------
(* Properties of the route predictor *)

\* The two SAR detections of the claim: no vessel identity, coordinates that
\* are numbers, different dates, within max_distance_km and max_time_hours.
TwoSarPointsInBounds ==
    /\ op = "routes"
    /\ Len(sar_detections) = 2
    /\ gap_events = <<>>
    /\ min_route_length = 2
    /\ \A a \in {1, 2} : /\ NumericCoords(sar_detections[a])
                         /\ sar_detections[a].date /= None
    /\ sar_detections[1].date /= sar_detections[2].date
    /\ RecordDistance(sar_detections[1], sar_detections[2]) <= max_distance_km
    /\ 24 * Abs(sar_detections[1].date - sar_detections[2].date) <= max_time_hours

\* C7: for two such detections predict_routes returns exactly one route, of two
\* points, point_count 2 and a confidence in (0, 1] (x100 here).
C7_TwoPointsOneRoute ==
    (TwoSarPointsInBounds /\ pc = "returned") =>
        /\ routes_ret.status = "returned"
        /\ Len(routes_ret.routes) = 1
        /\ routes_ret.routes[1].point_count = 2
        /\ Len(routes_ret.routes[1].points) = 2
        /\ routes_ret.routes[1].confidence > 0
        /\ routes_ret.routes[1].confidence <= 100

-----------------------------------------------------------------------------
(* Properties of the risk scorer *)

RiskReturned == op = "risk" /\ pc = "returned"

EventFetches == {"fishing", "encounters", "port_visits"}

Asked(fetch) == upstream[fetch] /= NotAsked

\* C8: whatever the upstream counters, the risk_score returned lies in
\* [0, 100] and the gap contribution never exceeds 50 (x10 here).
C8_ScoreBounded ==
    op = "risk" =>
        /\ ("gap_score" \in DOMAIN factors => factors["gap_score"] <= 500)
        /\ pc = "returned" => /\ risk_ret.risk_score >= 0
                              /\ risk_ret.risk_score <= 1000

\* An assessment made from extreme counters has been returned.
C8_Witness ==
    /\ RiskReturned
    /\ upstream.insights.ok /\ upstream.insights.has_gap
    /\ upstream.insights.events = Huge
    /\ upstream.insights.has_identity /\ upstream.insights.listed > 0
    /\ \A fetch \in EventFetches :
          upstream[fetch].ok /\ upstream[fetch].is_dict /\ upstream[fetch].entries = Huge
    /\ risk_ret.risk_score = 1000

\* The counters of the claim: g, w from the insights, f, e, p the numbers of
\* entries returned.
CounterG == IF upstream.insights.has_gap THEN upstream.insights.events ELSE 0
CounterW == IF upstream.insights.has_identity THEN upstream.insights.listed ELSE 0
Entries(fetch) == IF upstream[fetch].is_dict THEN upstream[fetch].entries ELSE 0

AllFetchesSucceeded ==
    /\ RiskReturned
    /\ upstream.insights.ok
    /\ \A fetch \in EventFetches : Asked(fetch) /\ upstream[fetch].ok

\* min(10g, 50) + (50 if w > 0 else 0) + min(0.5f, 15) + min(2e, 20) + min(0.3p, 15), x10
ClaimedSum ==
    Min(100 * CounterG, 500) + (IF CounterW > 0 THEN 500 ELSE 0)
    + Min(5 * Entries("fishing"), 150) + Min(20 * Entries("encounters"), 200)
    + Min(3 * Entries("port_visits"), 150)

\* C9: when all four fetches succeed, risk_score is the capped sum of the five
\* capped factors, and risk_level is 'high' from 70, 'medium' from 40, else 'low'.
C9_ScoreFormula ==
    AllFetchesSucceeded =>
        /\ risk_ret.risk_score = Min(1000, ClaimedSum)
        /\ (risk_ret.risk_level = "high") <=> (ClaimedSum >= 700)
        /\ (risk_ret.risk_level = "medium") <=> (ClaimedSum >= 400 /\ ClaimedSum < 700)
        /\ (risk_ret.risk_level = "low") <=> (ClaimedSum < 400)

\* The scenario g = 3, w = 1, f = e = p = 0 has given 80 and 'high'.
C9_Witness ==
    /\ AllFetchesSucceeded
    /\ CounterG = 3 /\ CounterW = 1
    /\ \A fetch \in EventFetches : upstream[fetch].is_dict /\ Entries(fetch) = 0
    /\ risk_ret.risk_score = 800
    /\ risk_ret.risk_level = "high"

\* The factor recorded for an event fetch is 0.
RecordedZero(count_key, score_key) ==
    /\ count_key \in DOMAIN risk_ret.factors /\ risk_ret.factors[count_key] = 0
    /\ score_key \in DOMAIN risk_ret.factors /\ risk_ret.factors[score_key] = 0

EventFactorsZeroWhenFailed ==
    /\ ~upstream.fishing.ok => RecordedZero("fishing_events", "fishing_score")
    /\ ~upstream.encounters.ok => RecordedZero("encounters", "encounter_score")
    /\ ~upstream.port_visits.ok => RecordedZero("port_visits", "port_score")

SucceededSum ==
    Min(100 * CounterG, 500) + (IF CounterW > 0 THEN 500 ELSE 0)
    + (IF upstream.fishing.ok THEN Min(5 * Entries("fishing"), 150) ELSE 0)
    + (IF upstream.encounters.ok THEN Min(20 * Entries("encounters"), 200) ELSE 0)
    + (IF upstream.port_visits.ok THEN Min(3 * Entries("port_visits"), 150) ELSE 0)

-----------------------------------------------------------------------------
(* Properties of the dark vessel aggregator *)

Chunked == op = "dark_vessels" /\ pc /= "called"

DarkVesselsReturned == op = "dark_vessels" /\ pc = "returned"

\* The inclusive span of the request and of a chunk, in days.
RequestedSpan == (strptime(end_date) - strptime(start_date)) + 1

ChunkSpan(chunk) == (strptime(chunk[2]) - strptime(chunk[1])) + 1

IssuedCalls == {calls[k].call : k \in {n \in DOMAIN calls : calls[n].kind = "issue"}}

\* C11: a span of more than 30 days is fetched in chunks of at most 30 days
\* each, ascending and consecutive (each starts the day after the previous one
\* ends), 3 chunks for 90 days; a span of 30 days or less is fetched as the
\* one chunk (start_date, end_date); every upstream call is for one of the
\* chunks.
C11_ChunksOfThirtyDays ==
    Chunked =>
        /\ RequestedSpan > 30 =>
             /\ \A k \in DOMAIN date_chunks :
                    ChunkSpan(date_chunks[k]) >= 1 /\ ChunkSpan(date_chunks[k]) <= 30
             /\ \A k \in 1..(Len(date_chunks) - 1) :
                    strptime(date_chunks[k + 1][1]) = strptime(date_chunks[k][2]) + 1
             /\ RequestedSpan = 90 => Len(date_chunks) = 3
        /\ RequestedSpan <= 30 => date_chunks = <<<<start_date, end_date>>>>
        /\ \A c \in IssuedCalls : <<c.start_date, c.end_date>> \in Range(date_chunks)

C11_Witness ==
    /\ DarkVesselsReturned
    /\ RequestedSpan = 90
    /\ Len(date_chunks) = 3
    /\ Cardinality(IssuedCalls) >= 3

DaysOf(chunk) == strptime(chunk[1])..strptime(chunk[2])

\* C20: for start_date < end_date and a span of more than 30 days the chunks
\* cover the range exactly: the first starts at start_date, the last ends at
\* end_date, and every day of the range lies in exactly one chunk.
C20_ChunksCoverRange ==
    (Chunked /\ RequestedSpan > 30) =>
        /\ date_chunks[1][1] = start_date
        /\ date_chunks[Len(date_chunks)][2] = end_date
        /\ \A day \in strptime(start_date)..strptime(end_date) :
               Cardinality({k \in DOMAIN date_chunks : day \in DaysOf(date_chunks[k])}) = 1

\* An answer has the expected structure: a report with its detection items
\* under entries[].<sar-presence key>, each a dict with lat and lon; gap
\* events as dicts under "entries" or in a bare list.
ExpectedStructure(x) ==
    /\ x.shape \in (IF x.call.api = "create_report" THEN {"entries"} ELSE {"entries", "list"})
    /\ \A k \in DOMAIN x.entries :
           /\ IsDict(x.entries[k])
           /\ x.call.api = "create_report" => HasLatAndLon(x.entries[k])

SucceededAnswers == {k \in DOMAIN calls : calls[k].kind = "answer" /\ calls[k].ok}

\* The upstream records of the answered calls of one API that succeeded with
\* an answer of the expected structure, in call order.
RECURSIVE RecordsOfSucceeded(_, _)
RecordsOfSucceeded(history, api) ==
    IF history = <<>> THEN <<>>
    ELSE LET x == Head(history)
         IN  (IF x.kind = "answer" /\ x.call.api = api /\ x.ok /\ ExpectedStructure(x)
              THEN x.entries ELSE <<>>)
             \o RecordsOfSucceeded(Tail(history), api)

FailedAnswers == {k \in DOMAIN calls : calls[k].kind = "answer" /\ ~calls[k].ok}

AllChunks == Range(date_chunks)

\* C12: whichever upstream calls fail, get_dark_vessels returns: every
\* (region, chunk) call has been issued, sar_detections and gap_events hold
\* exactly the records of the calls that succeeded, in call order, and the
\* summary totals are their lengths (the answers of the calls that succeeded
\* having the expected structure).
C12_PartialFailuresIsolated ==
    (DarkVesselsReturned /\ \A n \in SucceededAnswers : ExpectedStructure(calls[n])) =>
        LET sar == RecordsOfSucceeded(calls, "create_report")
            gaps == RecordsOfSucceeded(calls, "get_gap_events")
        IN  /\ IssuedCalls =
                 {ReportCall(r, c) : r \in Range(eez_ids), c \in AllChunks}
                 \cup (IF include_gaps
                       THEN {GapCall(r, c) : r \in Range(eez_ids), c \in AllChunks}
                       ELSE {})
            /\ Len(results.sar_detections) = Len(sar)
            /\ \A k \in DOMAIN sar :
                   /\ results.sar_detections[k].latitude = sar[k].lat
                   /\ results.sar_detections[k].longitude = sar[k].lon
                   /\ results.sar_detections[k].date = sar[k].date
                   /\ results.sar_detections[k].detections = sar[k].detections
            /\ results.gap_events = gaps
            /\ results.summary.total_sar_detections = Len(results.sar_detections)
            /\ results.summary.total_gap_events = Len(results.gap_events)

C12_Witness ==
    /\ DarkVesselsReturned
    /\ \A n \in SucceededAnswers : ExpectedStructure(calls[n])
    /\ \E k \in FailedAnswers : calls[k].call.api = "create_report"
    /\ \E k \in FailedAnswers : calls[k].call.api = "get_gap_events"
    /\ Len(results.sar_detections) >= 2
    /\ Len(results.gap_events) >= 1

\* C13: every record of sar_detections stems from an upstream record that is
\* unmatched with AIS, also when the upstream ignores the matched='false'
\* filter.
C13_OnlyUnmatchedDetections ==
    op = "dark_vessels" =>
        LET upstream_dets == RecordsOfSucceeded(calls, "create_report")
        IN  \A k \in DOMAIN results.sar_detections :
                ~\E n \in DOMAIN upstream_dets :
                    /\ upstream_dets[n].ais_matched
                    /\ upstream_dets[n].lat = results.sar_detections[k].latitude
                    /\ upstream_dets[n].lon = results.sar_detections[k].longitude
                    /\ upstream_dets[n].date = results.sar_detections[k].date

IssueEvents == SelectSeq(calls, LAMBDA x : x.kind = "issue")

\* The calls in region-major then chunk order.
CallsInOrder(make(_, _)) ==
    [n \in 1..(Len(eez_ids) * Len(date_chunks)) |->
        make(eez_ids[((n - 1) \div Len(date_chunks)) + 1],
             date_chunks[((n - 1) % Len(date_chunks)) + 1])]

IsPrefix(s, t) == Len(s) <= Len(t) /\ SubSeq(t, 1, Len(s)) = s

\* C14: upstream calls never overlap: each is answered before the next is
\* issued; reports go in region-major then chunk order and all before any gap
\* fetch; every create_report call but the first comes right after the
\* 1-second delay, also when the report call before it failed.
C14_SerialCallsWithDelay ==
    Chunked =>
        /\ Cardinality(in_flight) <= 1
        /\ \A k \in DOMAIN calls :
               calls[k].kind = "issue" =>
                   IF k = Len(calls) THEN in_flight = {calls[k].call}
                   ELSE calls[k + 1].kind = "answer" /\ calls[k + 1].call = calls[k].call
        /\ IsPrefix([k \in DOMAIN IssueEvents |-> IssueEvents[k].call],
                    CallsInOrder(ReportCall) \o CallsInOrder(GapCall))
        /\ \A k \in DOMAIN calls :
               (/\ calls[k].kind = "issue"
                /\ calls[k].call.api = "create_report"
                /\ \E l \in 1..(k - 1) : calls[l].kind = "issue")
               => (calls[k - 1] = Sleep)

C14_Witness ==
    /\ DarkVesselsReturned
    /\ Len(eez_ids) = 2 /\ Len(date_chunks) = 2 /\ include_gaps
    /\ \E k \in FailedAnswers :
          /\ calls[k].call.api = "create_report"
          /\ k + 2 <= Len(calls)
          /\ calls[k + 1] = Sleep
          /\ calls[k + 2].kind = "issue"

-----------------------------------------------------------------------------
(* Properties of the client's pagination parameters *)

RequestSent == op = "client" /\ pc = "sent"

Paginated(params) == {"limit", "offset"} \cap DOMAIN params

\* C15: whatever limit and offset are passed to get_all_events or
\* get_gap_events (None, 0, negative, non-integer, only one of them), the
\* request holds limit if and only if it holds offset, and then limit >= 1 and
\* offset >= 0; the gap fetches of get_dark_vessels hold neither.
C15_LimitAndOffsetTogether ==
    /\ RequestSent =>
         /\ Paginated(request.params) \in {{}, {"limit", "offset"}}
         /\ Paginated(request.params) /= {} =>
              /\ IsInstanceInt(request.params["limit"])
              /\ IsInstanceInt(request.params["offset"])
              /\ request.params["limit"].val >= 1
              /\ request.params["offset"].val >= 0
    /\ op = "dark_vessels" =>
         \A c \in IssuedCalls :
             c.api = "get_gap_events" => Paginated(c.request.params) = {}

C15_Witness ==
    /\ RequestSent
    /\ client_call.method = "get_gap_events"
    /\ client_call.limit = PyInt(2)
    /\ client_call.offset = Omitted
    /\ Paginated(request.params) = {}

-----------------------------------------------------------------------------
(* Properties of the response cache *)

\* The step is the handling of one request with this query.
Requested(query) == response'.n = response.n + 1 /\ response'.query = query

BinsKey(query) == make_cache_key("GET", "/api/bins/3", query)

AnsweredWithin(query, ttl) ==
    answered[query].at /= None /\ now < answered[query].at + ttl

\* C16: after the upstream answered a request with 200, an identical request
\* arriving before the TTL has elapsed gets the same payload and status
\* without an upstream call; once the TTL has elapsed the entry is removed and
\* the request goes upstream again.
C16_CachedUntilTtl ==
    [][\A query \in BinsQueries :
         Requested(query) =>
           /\ AnsweredWithin(query, default_ttl_seconds) =>
                /\ response'.payload = answered[query].payload
                /\ response'.status = 200
                /\ upstream_calls' = upstream_calls
           /\ (answered[query].at /= None /\ ~AnsweredWithin(query, default_ttl_seconds)) =>
                upstream_calls' = upstream_calls + 1
      ]_vars

\* C16, amended: the request is answered from the cache exactly as long as
\* its entry is in the store and its TTL has not elapsed; the entry is the
\* last 200 answer; after the TTL the entry is removed and the upstream is
\* asked again; an entry whose TTL has not elapsed leaves the store only when
\* a new entry is set while the store holds max_items entries.
C16_CachedWhileStored ==
    [][\A query \in BinsQueries :
         Requested(query) =>
           LET pos == PositionOf(store, BinsKey(query))
           IN  /\ pos /= 0 =>
                    /\ store[pos].payload = answered[query].payload
                    /\ store[pos].status_code = 200
                    /\ store[pos].expires_at = answered[query].at + default_ttl_seconds
               /\ (pos /= 0 /\ now < store[pos].expires_at) =>
                    /\ response'.cached
                    /\ response'.payload = store[pos].payload
                    /\ response'.status = store[pos].status_code
                    /\ upstream_calls' = upstream_calls
                    /\ store' = store
               /\ (pos /= 0 /\ now >= store[pos].expires_at) =>
                    /\ ~response'.cached
                    /\ upstream_calls' = upstream_calls + 1
                    /\ \A k \in DOMAIN store' :
                           store'[k].key = BinsKey(query) => store'[k].expires_at > now
               /\ (pos = 0 /\ AnsweredWithin(query, default_ttl_seconds)) =>
                    ~response'.cached
               /\ \A k \in DOMAIN store :
                      (now < store[k].expires_at /\ PositionOf(store', store[k].key) = 0)
                      => Len(store) >= max_items
      ]_vars

\* A request answered from the cache at a later tick than the upstream answer.
C16_Witness ==
    /\ op = "bins"
    /\ response.n >= 2
    /\ response.cached
    /\ answered[response.query].at < now
    /\ upstream_calls >= 2

-----------------------------------------------------------------------------
(* Properties of parse_eez_ids *)

EezReturned == op = "parse_eez_ids" /\ pc = "returned"

SelectedIds == ParsedIds(eez_args.request)

\* C17: when a parent EEZ is selected and none of its children is, the result
\* holds every child of that parent, alongside any unrelated selected id.
C17_ParentExpandsToChildren ==
    EezReturned =>
        \A p \in Range(Parents) \cap SelectedIds :
            parent_to_children(p) \cap SelectedIds = {} =>
                /\ parent_to_children(p) \subseteq Range(eez_ret)
                /\ (SelectedIds \ Range(Parents)) \subseteq Range(eez_ret)

\* C18: when a parent and one of its children are both selected, with
\* prioritize_parents=True the result holds the child and not the parent, with
\* prioritize_parents=False it holds both.
C18_PrioritizeParentsHonoured ==
    EezReturned =>
        \A p \in Range(Parents) \cap SelectedIds :
            \A child \in parent_to_children(p) \cap SelectedIds :
                IF eez_args.prioritize_parents
                THEN child \in Range(eez_ret) /\ p \notin Range(eez_ret)
                ELSE child \in Range(eez_ret) /\ p \in Range(eez_ret)

-----------------------------------------------------------------------------
(* Properties of Phase A of the route predictor *)

\* The points predict_routes works on, when it gets as far as Phase A.
ReachesPhaseA ==
    /\ op = "routes" /\ pc = "returned"
    /\ Len(ExtractAll(sar_detections, gap_events)) >= min_route_length
    /\ ~MixedTimezones(ExtractAll(sar_detections, gap_events))

SortedPoints == SortByTime(ExtractAll(sar_detections, gap_events))

RECURSIVE Concatenated(_)
Concatenated(segments) ==
    IF segments = <<>> THEN <<>> ELSE Head(segments) \o Concatenated(Tail(segments))

\* C19: Phase A cuts each vessel's chronologically sorted points into
\* segments (a point extends the segment iff it is within max_distance_km of
\* the previous point and their time delta is unknown or within
\* max_time_hours, else it starts the next segment), so that the segments
\* concatenated are the vessel's points; the routes emitted for the vessel are
\* exactly its segments of length >= min_route_length.
C19_VesselSegmentsAreRoutes ==
    ReachesPhaseA =>
        LET heads == VesselHeads(SortedPoints)
            emitted == VesselSegments(heads, SortedPoints, max_time_hours,
                                      max_distance_km, min_route_length)
        IN  /\ \A h \in Range(heads) :
                  LET points == SelectSeq(SortedPoints,
                                          LAMBDA q : q.vessel_id = SortedPoints[h].vessel_id)
                  IN  Len(points) >= min_route_length =>
                          Concatenated(WalkVessel(1, points, <<>>, <<>>,
                                                  max_time_hours, max_distance_km))
                          = [k \in DOMAIN points |-> RoutePoint(points[k])]
            /\ emitted /= <<>> =>
                  /\ routes_ret.status = "returned"
                  /\ \A k \in DOMAIN emitted :
                         \E r \in Range(routes_ret.routes) :
                             r.vessel_id = emitted[k].vessel_id /\ r.points = emitted[k].points
                  /\ \A r \in Range(routes_ret.routes) :
                         r.vessel_id /= None =>
                             \E k \in DOMAIN emitted :
                                 r.vessel_id = emitted[k].vessel_id /\ r.points = emitted[k].points

\* The step is the answer of an upstream call that succeeded
AnswerStep ==
    /\ op = "dark_vessels"
    /\ Len(calls') = Len(calls) + 1
    /\ calls'[Len(calls')].kind = "answer"
    /\ calls'[Len(calls')].ok

\* C21: a successful upstream answer that lacks the expected structure adds
\* no record to sar_detections or gap_events.
C21_MalformedAnswerAddsNothing ==
    [][(AnswerStep /\ ~ExpectedStructure(calls'[Len(calls')])) => results' = results]_vars

\* C22: detect_proximity_clusters returns, for any input, and the clusters it
\* returns are in descending order of vessel_count, and of ascending date
\* among those of equal vessel_count that have a date.
C22_SortedByCountThenDate ==
    (op = "clusters" /\ pc = "returned") =>
        /\ clusters_ret.status = "returned"
        /\ \A a, b \in DOMAIN clusters_ret.clusters :
              a < b =>
                LET x == clusters_ret.clusters[a]
                    y == clusters_ret.clusters[b]
                IN  \/ x.vessel_count > y.vessel_count
                    \/ /\ x.vessel_count = y.vessel_count
                       /\ (x.date /= None /\ y.date /= None) => x.date <= y.date

-----------------------------------------------------------------------------
(* Properties of Phase B of the route predictor *)

\* sar_points: the sorted points without a vessel id
SarPoints == SelectSeq(SortedPoints, LAMBDA q : ~Truthy(q.vessel_id))

\* predict_routes gets as far as _connect_sar_points: Phase A has raised on
\* no segment.
ReachesPhaseB ==
    /\ ReachesPhaseA
    /\ \A seg \in Range(VesselSegments(VesselHeads(SortedPoints), SortedPoints,
                                       max_time_hours, max_distance_km, min_route_length)) :
           Len(seg.points) < 2
    /\ Len(SarPoints) >= min_route_length

\* The chains _connect_sar_points grows, as positions in sar_points, from
\* the seed i on: every chain up to the first that is handed to
\* _create_route_from_points with two or more points, where the call ends.
RECURSIVE SarChains(_, _)
SarChains(i, processed) ==
    IF i > Len(SarPoints) THEN <<>>
    ELSE IF i \in processed THEN SarChains(i + 1, processed)
    ELSE LET chain == <<i>> \o Chain(i, SarPoints, processed \cup {i},
                                     max_time_hours, max_distance_km)
         IN  IF Len(chain) >= min_route_length /\ Len(chain) >= 2
             THEN <<chain>>
             ELSE <<chain>> \o SarChains(i + 1, processed \cup Range(chain))

\* The positions visited when step k of chain c is taken
VisitedAt(chains, c, k) ==
    UNION {Range(chains[b]) : b \in 1..(c - 1)} \cup {chains[c][m] : m \in 1..k}

\* The hours from point p to point q, when both have a time
HoursBetween(p, q) == q.timestamp - p.timestamp

\* q is within max_distance_km and, later than p, within max_time_hours of p
WithinBounds(p, q) ==
    /\ PointDistance(p, q) <= max_distance_km
    /\ p.timestamp /= None /\ q.timestamp /= None
    /\ HoursBetween(p, q) > 0
    /\ HoursBetween(p, q) <= max_time_hours

\* 1/(1+distance) * 1/(1+hours) of q is at least that of r (distances x10)
ScoreAtLeast(p, q, r) ==
    (10 + PointDistance(p, r)) * (1 + HoursBetween(p, r))
        >= (10 + PointDistance(p, q)) * (1 + HoursBetween(p, q))

\* The unvisited positions within bounds of the current point at a step
Reachable(chains, c, k) ==
    {j \in DOMAIN SarPoints \ VisitedAt(chains, c, k) :
        WithinBounds(SarPoints[chains[c][k]], SarPoints[j])}

\* C23: at every step of Phase B the point appended is an unvisited point
\* within max_distance_km and max_time_hours of the current point whose score
\* is maximal among these, the earliest in the sorted list among those of
\* maximal score, and the chain stops exactly when there is no such point.
C23_GreedyBestCandidate ==
    ReachesPhaseB =>
        LET chains == SarChains(1, {})
        IN  \A c \in DOMAIN chains : \A k \in DOMAIN chains[c] :
                LET cur == SarPoints[chains[c][k]]
                    reach == Reachable(chains, c, k)
                IN  IF k = Len(chains[c]) THEN reach = {}
                    ELSE LET next == chains[c][k + 1]
                         IN  /\ next \in reach
                             /\ \A j \in reach :
                                    /\ ScoreAtLeast(cur, SarPoints[next], SarPoints[j])
                                    /\ ScoreAtLeast(cur, SarPoints[j], SarPoints[next])
                                         => next <= j

\* Phase B has taken a step with two points in reach of different scores, and
\* a step with two of equal score.
C23_Witness ==
    /\ ReachesPhaseB
    /\ LET chains == SarChains(1, {})
       IN  \E c \in DOMAIN chains : \E k \in 1..(Len(chains[c]) - 1) :
               LET cur == SarPoints[chains[c][k]]
               IN  \E j, m \in Reachable(chains, c, k) :
                       /\ j /= m
                       /\ ~ScoreAtLeast(cur, SarPoints[j], SarPoints[m])

\* Phase B has taken a step with two points in reach of equal score.
C23_TieWitness ==
    /\ ReachesPhaseB
    /\ LET chains == SarChains(1, {})
       IN  \E c \in DOMAIN chains : \E k \in 1..(Len(chains[c]) - 1) :
               LET cur == SarPoints[chains[c][k]]
               IN  \E j, m \in Reachable(chains, c, k) :
                       /\ j /= m
                       /\ ScoreAtLeast(cur, SarPoints[j], SarPoints[m])
                       /\ ScoreAtLeast(cur, SarPoints[m], SarPoints[j])

\* The input mixes a record with an ISO-8601 time with Z suffix and a record
\* with a bare YYYY-MM-DD date, both with valid coordinates.
MixedTimeFormats ==
    LET items == sar_detections \o gap_events
    IN  \E a, b \in DOMAIN items :
            /\ ValidPoint(items[a]) /\ ValidPoint(items[b])
            /\ DateStr(items[a]) /= None /\ IsIso(items[a])
            /\ DateStr(items[b]) /= None /\ ~IsIso(items[b])

\* C24: for an input that mixes ISO-8601 times with Z suffix and bare dates
\* predict_routes does not raise on ordering the points by time.
C24_MixedTimeFormatsOrdered ==
    (op = "routes" /\ pc = "returned" /\ MixedTimeFormats) =>
        ~(/\ routes_ret.status = "raised"
          /\ routes_ret.error = "TypeError: offset-naive and offset-aware")

\* C26: a detection with latitude 0 (and a longitude that is a number) counts
\* as having coordinates: when another detection of its partition is within
\* max_distance_km, a returned cluster holds it.
C26_ZeroIsACoordinate ==
    ClustersReturned =>
        \A a \in DOMAIN sar_detections :
            (/\ sar_detections[a].latitude = 0
             /\ \E b \in DOMAIN sar_detections : Linked(a, b))
            => \E c \in ReturnedClusters : a \in Range(c.members)

\* C28: every point Phase B appends has a time, as has the point it is
\* appended to, and is strictly later, by at most max_time_hours: along every
\* chain the times increase strictly.
C28_StrictlyLaterOnly ==
    ReachesPhaseB =>
        LET chains == SarChains(1, {})
        IN  \A c \in DOMAIN chains : \A k \in 1..(Len(chains[c]) - 1) :
                LET p == SarPoints[chains[c][k]]
                    q == SarPoints[chains[c][k + 1]]
                IN  /\ p.timestamp /= None /\ q.timestamp /= None
                    /\ q.timestamp > p.timestamp
                    /\ q.timestamp - p.timestamp <= max_time_hours

\* Phase B has appended a point to a current point that had, within
\* max_distance_km and not yet visited, a point of the same time or a point
\* without a time.
C28_Witness ==
    /\ ReachesPhaseB
    /\ LET chains == SarChains(1, {})
       IN  \E c \in DOMAIN chains : \E k \in 1..(Len(chains[c]) - 1) :
               LET p == SarPoints[chains[c][k]]
               IN  \E j \in DOMAIN SarPoints \ VisitedAt(chains, c, k) :
                       /\ PointDistance(p, SarPoints[j]) <= max_distance_km
                       /\ \/ SarPoints[j].timestamp = None
                          \/ SarPoints[j].timestamp = p.timestamp

-----------------------------------------------------------------------------
(* Properties of the cached risk-score handler *)

\* C29: no payload in the response cache carries an upstream error, and no
\* response served from the cache does.
C29_NoErrorPayloadCached ==
    op = "risk_score" =>
        /\ \A k \in DOMAIN store : ~store[k].payload.error
        /\ (response.n > 0 /\ response.cached) => ~response.payload.error

-----------------------------------------------------------------------------
(* Properties of the event fetches of the risk scorer *)

\* The factor that holds the count of an event fetch
CountKey(fetch) ==
    CASE fetch = "fishing" -> "fishing_events"
      [] fetch = "encounters" -> "encounters"
      [] fetch = "port_visits" -> "port_visits"

\* The upstream has answered the fetch with no more entries than the limit
\* of the request.
HonoursLimit(fetch) ==
    /\ upstream[fetch].ok /\ upstream[fetch].is_dict
    /\ "limit" \in DOMAIN upstream[fetch].request.params
    /\ upstream[fetch].entries <= upstream[fetch].request.params["limit"].val

\* C30: each event fetch of calculate_risk_score is sent with limit=1 and
\* offset=0, and the count of a fetch whose answer honours the limit is at
\* most 1.
C30_EventCountsAtMostOne ==
    op = "risk" =>
        \A fetch \in EventFetches :
            Asked(fetch) =>
                /\ DOMAIN upstream[fetch].request.params = {"limit", "offset"}
                /\ upstream[fetch].request.params["limit"] = PyInt(1)
                /\ upstream[fetch].request.params["offset"] = PyInt(0)
                /\ (RiskReturned /\ ~risk_ret.error /\ HonoursLimit(fetch))
                      => risk_ret.factors[CountKey(fetch)] <= 1

\* An assessment has been returned for which each of the three fetches was
\* answered with one entry, the limit.
C30_Witness ==
    /\ RiskReturned /\ ~risk_ret.error
    /\ \A fetch \in EventFetches :
          /\ Asked(fetch) /\ HonoursLimit(fetch)
          /\ upstream[fetch].entries = 1
          /\ risk_ret.factors[CountKey(fetch)] = 1
    /\ risk_ret.factors["fishing_score"] = 5

=============================================================================
